---------------------------- MODULE Spec2Model ----------------------------
(***************************************************************************)
(* A model of the acquisition pipeline of redditarr: the rate limiter      *)
(* (app/core/utils.py), the fetch/retry executor and the deduplication     *)
(* engine (app/downloader/__init__.py), the task queue engine              *)
(* (app/services/task_queues.py) and the batch scheduler                   *)
(* (app/services/download_queue.py).                                       *)
(*                                                                         *)
(* Each component has its own specification over its own group of          *)
(* variables; the variables of the other groups are left unchanged.        *)
(***************************************************************************)
EXTENDS Integers, Sequences, FiniteSets, TLC

Max(a, b) == IF a >= b THEN a ELSE b
Min(a, b) == IF a <= b THEN a ELSE b

(***************************************************************************)
(* RATE LIMITER  (app/core/utils.py, class RateLimiter)                    *)
(*                                                                         *)
(* Time is counted in ticks.  Delay is the base delay 60/calls_per_minute  *)
(* expressed in ticks.  time.time() is read from the variable clock.       *)
(***************************************************************************)
Delay == 5
MaxBurst == 2
NCallers == 2
MaxCalls == 4
Horizon == 8

\* time.time() when the limiter is first used: far from last_call = 0
Epoch == (MaxBurst + 2) * Delay

Callers == 1..NCallers

VARIABLES
    burst_allowance,   \* RateLimiter.burst_allowance (0 stands for None/0)
    random_delay,      \* RateLimiter.random_delay
    clock,             \* time.time()
    last_call,         \* RateLimiter.last_call
    burst_tokens,      \* RateLimiter.burst_tokens
    lock_holder,       \* owner of RateLimiter._lock, 0 when free
    lock_waiters,      \* FIFO of callers suspended in _lock.acquire()
    rl_pc,             \* position of each caller inside acquire()
    wake_at,           \* earliest wake-up time of a caller in asyncio.sleep
    acq_log            \* one entry per acquire() that entered the critical section

rlVars == <<burst_allowance, random_delay, clock, last_call, burst_tokens,
            lock_holder, lock_waiters, rl_pc, wake_at, acq_log>>

\* Fetch/retry executor (Downloader.download_with_retry / download_file)
VARIABLES
    dl_url,            \* the url argument: the set of host markers it contains
    dl_pc,             \* position inside download_with_retry
    dl_attempt,        \* loop variable attempt
    dl_delay,          \* local variable delay
    dl_last_error,     \* local variable last_error
    dl_script,         \* what the server answers to the 1st, 2nd, ... request
    dl_outcomes,       \* what each download_file call met, in order
    dl_events,         \* acquires, network requests and sleeps, in order
    dl_result,         \* the returned (success, error)
    dl_row             \* the post_media row(s) whose media_url is the url

dlVars == <<dl_url, dl_pc, dl_attempt, dl_delay, dl_last_error, dl_script,
            dl_outcomes, dl_events, dl_result, dl_row>>

\* Worker lifecycle of one queue instance (TaskQueue / DownloadQueue)
VARIABLES
    q_running,         \* self.running
    q_stop_event,      \* self._stop_event.is_set()
    q_worker_task,     \* self._worker_task: a task id, 0 for None
    q_task,            \* state of every _process_queue task ever created
    q_stop             \* position of every stop() call in progress

qVars == <<q_running, q_stop_event, q_worker_task, q_task, q_stop>>

\* Choice of the subreddit whose posts refill the media backlog
VARIABLES
    sch_subs,          \* per subreddit: status and counts of its posts rows
    sch_marked,        \* number of posts processed since the start
    sch_last           \* the last refill: who chose, what, on which counts

schVars == <<sch_subs, sch_marked, sch_last>>

\* Media store: the tables and files process_post reads and writes
VARIABLES
    config,               \* config row 'subreddit_duplicate_strategy'
    posts,                \* posts rows, by id
    post_media,           \* post_media rows, by post id, in rowid order
    media_deduplication,  \* media_deduplication rows, in rowid order
    media_links,          \* media_links rows, in rowid order
    files,                \* the files on disk: path -> bytes
    pp,                   \* the process_post call in progress
    pp_log                \* what happened to every item, and the posts done

dbVars == <<config, posts, post_media, media_deduplication, media_links, files,
            pp, pp_log>>

\* One consumer loop at work on its queue (TaskQueue._process_queue)
VARIABLES
    w_task_type,       \* self.task_type
    w_running,         \* self.running
    w_stop_event,      \* self._stop_event.is_set()
    w_queue,           \* self.queue: the tasks waiting, oldest first
    w_pc,              \* where the loop is suspended
    w_current,         \* the task whose handler is running
    w_added,           \* number of tasks put since the start
    w_dispatched,      \* the tasks handed to a handler, in order
    w_history          \* self.history, newest first

wVars == <<w_task_type, w_running, w_stop_event, w_queue, w_pc, w_current,
           w_added, w_dispatched, w_history>>

\* Write paths run by the three queue workers against the one store
VARIABLES
    tx_pc,             \* where each worker is in its current write path
    tx_step,           \* which write path of its program a worker is at
    tx_write_lock,     \* holder of DatabasePool._write_lock
    tx_waiters,        \* workers waiting for _write_lock, oldest first
    tx_pool,           \* connections left in DatabasePool.pool
    tx_db_writer,      \* the connection owner holding the store's write lock
    tx_last            \* how each worker's last write path ended

txVars == <<tx_pc, tx_step, tx_write_lock, tx_waiters, tx_pool,
            tx_db_writer, tx_last>>

\* One comment thread after another written for one post
VARIABLES
    cm_db,             \* the committed store: the post's row and its comments
    cm_work,           \* the store as the handler's connection sees it
    cm_via,            \* the writer: _process_comment_fetch or save_comments
    cm_pc,             \* where the writer is
    cm_batch,          \* the comments returned by get_post_comments
    cm_k,              \* position of the next comment to insert
    cm_fetch,          \* number of fetches begun, also the clock
    cm_before,         \* the committed store when the current fetch began
    cm_outcomes        \* how each fetch ended

cmVars == <<cm_db, cm_work, cm_via, cm_pc, cm_batch, cm_k, cm_fetch, cm_before,
            cm_outcomes>>

\* Replenishment of the media backlog from the posts table
VARIABLES
    rf_posts,          \* posts rows (with whether a post_media row has a url)
    rf_status,         \* subreddits.status
    rf_batch_size,     \* config row 'batch_size'
    rf_changes,        \* number of times the operator has changed the row
    rf_dq,             \* DownloadQueue: loop position, batch_size, queue
    rf_tq,             \* media TaskQueue: queue
    rf_last            \* the last replenishment: by whom, what, on which rows

rfVars == <<rf_posts, rf_status, rf_batch_size, rf_changes, rf_dq, rf_tq, rf_last>>

\* The sweep of posts stuck in pending, next to a worker that marks posts
VARIABLES
    sw_posts,          \* posts rows: media_status, error, downloaded, last_status_check
    sw_sweep,          \* a _cleanup_stuck_posts call: position and the rows selected
    sw_marks           \* number of posts the media worker has marked

swVars == <<sw_posts, sw_sweep, sw_marks>>

\* Replenishment of the comment queue
VARIABLES
    cr_posts,          \* posts rows with the number of their comments rows
    cr_queue,          \* the comment TaskQueue
    cr_last            \* the last replenishment: the tasks put, on which rows

crVars == <<cr_posts, cr_queue, cr_last>>

\* Coroutines sharing the connection pool and the write mutex
VARIABLES
    pl_pc,             \* position of each coroutine
    pl_free,           \* connections in the pool's asyncio.Queue
    pl_held,           \* connections each coroutine holds
    pl_lock            \* owner of DatabasePool._write_lock, or "none"

plVars == <<pl_pc, pl_free, pl_held, pl_lock>>

\* process_post on text posts
VARIABLES
    tp_posts,          \* posts rows: post_type, media_status, error, downloaded
    tp_call            \* the process_post call on each post: position, result

tpVars == <<tp_posts, tp_call>>

vars == <<rlVars, dlVars, qVars, schVars, dbVars, wVars, txVars, cmVars, rfVars, swVars, crVars, plVars, tpVars>>

\* what the actions of one component leave unchanged: the other components
rlOthers == <<dlVars, qVars, schVars, dbVars, wVars, txVars, cmVars, rfVars, swVars, crVars, plVars, tpVars>>
dlOthers == <<rlVars, qVars, schVars, dbVars, wVars, txVars, cmVars, rfVars, swVars, crVars, plVars, tpVars>>
qOthers == <<rlVars, dlVars, schVars, dbVars, wVars, txVars, cmVars, rfVars, swVars, crVars, plVars, tpVars>>
schOthers == <<rlVars, dlVars, qVars, dbVars, wVars, txVars, cmVars, rfVars, swVars, crVars, plVars, tpVars>>
dbOthers == <<rlVars, dlVars, qVars, schVars, wVars, txVars, cmVars, rfVars, swVars, crVars, plVars, tpVars>>
wOthers == <<rlVars, dlVars, qVars, schVars, dbVars, txVars, cmVars, rfVars, swVars, crVars, plVars, tpVars>>
txOthers == <<rlVars, dlVars, qVars, schVars, dbVars, wVars, cmVars, rfVars, swVars, crVars, plVars, tpVars>>
cmOthers == <<rlVars, dlVars, qVars, schVars, dbVars, wVars, txVars, rfVars, swVars, crVars, plVars, tpVars>>
rfOthers == <<rlVars, dlVars, qVars, schVars, dbVars, wVars, txVars, cmVars, swVars, crVars, plVars, tpVars>>
swOthers == <<rlVars, dlVars, qVars, schVars, dbVars, wVars, txVars, cmVars, rfVars, crVars, plVars, tpVars>>
crOthers == <<rlVars, dlVars, qVars, schVars, dbVars, wVars, txVars, cmVars, rfVars, swVars, plVars, tpVars>>
plOthers == <<rlVars, dlVars, qVars, schVars, dbVars, wVars, txVars, cmVars, rfVars, swVars, crVars, tpVars>>
tpOthers == <<rlVars, dlVars, qVars, schVars, dbVars, wVars, txVars, cmVars, rfVars, swVars, crVars, plVars>>

\* a replenishment without the cap of line 49
ReplenishMut(tokens, now, last) ==
    IF burst_allowance # 0
    THEN tokens + ((now - last) \div Delay)
    ELSE tokens

\* line 48-50: tokens after replenishment
Replenish(tokens, now, last) ==
    IF burst_allowance # 0
    THEN Min(burst_allowance, tokens + ((now - last) \div Delay))
    ELSE tokens

\* line 53-57: delay required for this call, given the replenished tokens
RequiredDelayMut(tokens, now, last) ==
    IF tokens > 0 THEN 0 ELSE Max(0, (Delay - 1) - (now - last))
RequiredDelay(tokens, now, last) ==
    IF tokens > 0 THEN 0 ELSE Max(0, Delay - (now - last))

\* line 53-54: a token is consumed when one is available
ConsumeTokenMut(tokens) == tokens
ConsumeToken(tokens) == IF tokens > 0 THEN tokens - 1 ELSE tokens

\* line 60-61: random.uniform(0, required_delay * 0.2), in whole ticks
Jitter(required) ==
    IF random_delay /\ required > 0 THEN 0..((required * 2) \div 10) ELSE {0}

\* the limiter before any call, without burst allowance
RLIdle ==
    /\ burst_allowance = 0
    /\ random_delay = FALSE
    /\ clock = 0
    /\ last_call = 0
    /\ burst_tokens = 0
    /\ lock_holder = 0
    /\ lock_waiters = <<>>
    /\ rl_pc = <<>>
    /\ wake_at = <<>>
    /\ acq_log = <<>>

\* the executor before any call
DLIdle ==
    /\ dl_url = {}
    /\ dl_pc = "idle"
    /\ dl_attempt = 0
    /\ dl_delay = 0
    /\ dl_last_error = <<>>
    /\ dl_script = <<>>
    /\ dl_outcomes = <<>>
    /\ dl_events = <<>>
    /\ dl_result = [ok |-> FALSE, error |-> <<>>]
    /\ dl_row = [media_status |-> "pending", error |-> <<>>]

\* a queue that was never started
QIdle ==
    /\ q_running = FALSE
    /\ q_stop_event = FALSE
    /\ q_worker_task = 0
    /\ q_task = <<>>
    /\ q_stop = <<>>

\* no subreddit followed, nothing chosen
SchIdle ==
    /\ sch_subs = <<>>
    /\ sch_marked = 0
    /\ sch_last = <<>>

\* an empty store
DBIdle ==
    /\ config = ""
    /\ posts = <<>>
    /\ post_media = <<>>
    /\ media_deduplication = <<>>
    /\ media_links = <<>>
    /\ files = <<>>
    /\ pp = <<>>
    /\ pp_log = <<>>

\* no consumer loop
WIdle ==
    /\ w_task_type = ""
    /\ w_running = FALSE
    /\ w_stop_event = FALSE
    /\ w_queue = <<>>
    /\ w_pc = ""
    /\ w_current = <<>>
    /\ w_added = 0
    /\ w_dispatched = <<>>
    /\ w_history = <<>>

\* no write path under way
TXIdle ==
    /\ tx_pc = <<>>
    /\ tx_step = <<>>
    /\ tx_write_lock = ""
    /\ tx_waiters = <<>>
    /\ tx_pool = 0
    /\ tx_db_writer = ""
    /\ tx_last = <<>>

\* no comment fetch
CMIdle ==
    /\ cm_db = <<>>
    /\ cm_work = <<>>
    /\ cm_via = ""
    /\ cm_pc = ""
    /\ cm_batch = <<>>
    /\ cm_k = 0
    /\ cm_fetch = 0
    /\ cm_before = <<>>
    /\ cm_outcomes = <<>>

\* no catalog, no scheduling loop
RFIdle ==
    /\ rf_posts = <<>>
    /\ rf_status = <<>>
    /\ rf_batch_size = 0
    /\ rf_changes = 0
    /\ rf_dq = <<>>
    /\ rf_tq = <<>>
    /\ rf_last = <<>>

\* no posts, no sweep
SWIdle ==
    /\ sw_posts = <<>>
    /\ sw_sweep = <<>>
    /\ sw_marks = 0

\* no posts, no comment queue
CRIdle ==
    /\ cr_posts = <<>>
    /\ cr_queue = <<>>
    /\ cr_last = <<>>

\* no coroutine uses the pool
PLIdle ==
    /\ pl_pc = <<>>
    /\ pl_free = 0
    /\ pl_held = <<>>
    /\ pl_lock = <<>>

\* no text post
TPIdle ==
    /\ tp_posts = <<>>
    /\ tp_call = <<>>

RLInit ==
    /\ burst_allowance \in 0..MaxBurst
    /\ random_delay \in BOOLEAN
    /\ clock = Epoch
    /\ last_call = 0
    /\ burst_tokens = burst_allowance
    /\ lock_holder = 0
    /\ lock_waiters = <<>>
    /\ rl_pc = [c \in Callers |-> "idle"]
    /\ wake_at = [c \in Callers |-> 0]
    /\ acq_log = <<>>

\* line 66 and the end of "async with": record the call time, release the lock
Complete(c, log) ==
    /\ last_call' = clock
    /\ acq_log' = [log EXCEPT ![Len(log)].done = clock]
    /\ lock_holder' = 0
    /\ rl_pc' = [rl_pc EXCEPT ![c] = "idle"]

\* a lock given up for the time of the sleep
HolderDuringSleepMut(c) == 0

\* lines 43 and 63-64: the sleep is awaited inside "async with self._lock"
HolderDuringSleep(c) == c

\* lines 44-64: the critical section up to the sleep, run without suspension
CriticalSection(c) ==
    LET now      == clock
        tokens   == Replenish(burst_tokens, now, last_call)
        required == RequiredDelay(tokens, now, last_call)
    IN \E j \in Jitter(required) :
         LET total == required + j
             entry == [caller |-> c, now |-> now,
                       full |-> (burst_allowance # 0 /\ tokens = burst_allowance),
                       sleep |-> total, done |-> 0]
         IN /\ burst_tokens' = ConsumeToken(tokens)
            /\ IF total > 0
               THEN /\ lock_holder' = HolderDuringSleep(c)
                    /\ rl_pc' = [rl_pc EXCEPT ![c] = "sleeping"]
                    /\ wake_at' = [wake_at EXCEPT ![c] = now + total]
                    /\ acq_log' = Append(acq_log, entry)
                    /\ UNCHANGED last_call
               ELSE /\ Complete(c, Append(acq_log, entry))
                    /\ UNCHANGED wake_at

\* line 43: acquire() called, the lock is free and nobody waits for it
AcquireEnter(c) ==
    /\ rl_pc[c] = "idle"
    /\ Len(acq_log) + Len(lock_waiters) < MaxCalls
    /\ lock_holder = 0 /\ lock_waiters = <<>>
    /\ CriticalSection(c)
    /\ UNCHANGED <<burst_allowance, random_delay, clock, lock_waiters>>
    /\ UNCHANGED rlOthers

\* line 43: acquire() called while the lock is held: queue behind it
AcquireWait(c) ==
    /\ rl_pc[c] = "idle"
    /\ Len(acq_log) + Len(lock_waiters) < MaxCalls
    /\ ~(lock_holder = 0 /\ lock_waiters = <<>>)
    /\ rl_pc' = [rl_pc EXCEPT ![c] = "waiting"]
    /\ lock_waiters' = Append(lock_waiters, c)
    /\ UNCHANGED <<burst_allowance, random_delay, clock, last_call,
                   burst_tokens, lock_holder, wake_at, acq_log>>
    /\ UNCHANGED rlOthers

\* line 43: the first waiter obtains the released lock
AcquireGranted(c) ==
    /\ lock_holder = 0
    /\ lock_waiters # <<>> /\ Head(lock_waiters) = c
    /\ lock_waiters' = Tail(lock_waiters)
    /\ CriticalSection(c)
    /\ UNCHANGED <<burst_allowance, random_delay, clock>>
    /\ UNCHANGED rlOthers

\* line 64-66: asyncio.sleep returns, not before the requested delay
SleepReturns(c) ==
    /\ rl_pc[c] = "sleeping"
    /\ clock >= wake_at[c]
    /\ Complete(c, acq_log)
    /\ UNCHANGED <<burst_allowance, random_delay, clock, burst_tokens,
                   lock_waiters, wake_at>>
    /\ UNCHANGED rlOthers

\* time passes
Tick ==
    /\ clock < Epoch + Horizon
    /\ clock' = clock + 1
    /\ UNCHANGED <<burst_allowance, random_delay, last_call, burst_tokens,
                   lock_holder, lock_waiters, rl_pc, wake_at, acq_log>>
    /\ UNCHANGED rlOthers

RLNext ==
    \/ \E c \in Callers : AcquireEnter(c)
    \/ \E c \in Callers : AcquireWait(c)
    \/ \E c \in Callers : AcquireGranted(c)
    \/ \E c \in Callers : SleepReturns(c)
    \/ Tick

RLStart == RLInit /\ DLIdle /\ QIdle /\ SchIdle /\ DBIdle /\ WIdle /\ TXIdle /\ CMIdle /\ RFIdle /\ SWIdle /\ CRIdle /\ PLIdle /\ TPIdle

RLSpec == RLStart /\ [][RLNext]_vars

\* completed entries of the log
Completed(i) == acq_log[i].done # 0

\* C22: at most one caller is between its entry into the critical
\* section and its last_call update; the sections of the log do not
\* overlap, and the last_call values they record never decrease
C22_Serialized ==
    /\ Cardinality({c \in Callers : rl_pc[c] = "sleeping"}) <= 1
    /\ \A c \in Callers : rl_pc[c] = "sleeping" => lock_holder = c
    /\ \A i \in 1..(Len(acq_log) - 1) :
          /\ Completed(i)
          /\ acq_log[i].done <= acq_log[i + 1].now
          /\ Completed(i + 1) => acq_log[i].done <= acq_log[i + 1].done
    /\ \A i \in 1..Len(acq_log) : Completed(i) => acq_log[i].done <= last_call

\* a second caller queued behind a sleeping one and entered at the very
\* time the first one left
C22_Witness ==
    \E i \in 1..(Len(acq_log) - 1) :
        /\ acq_log[i].caller # acq_log[i + 1].caller
        /\ acq_log[i].sleep > 0
        /\ acq_log[i + 1].now = acq_log[i].done
        /\ rl_pc[acq_log[i + 1].caller] = "sleeping"
        /\ lock_waiters # <<>>

(***************************************************************************)
(* C1: without burst allowance, the completion times of two consecutive    *)
(* acquire() calls differ by at least the base delay, for one caller or    *)
(* several, with or without jitter.                                        *)
(***************************************************************************)
C1_MinSpacing ==
    burst_allowance = 0 =>
        \A i \in 1..(Len(acq_log) - 1) :
            Completed(i + 1) =>
                acq_log[i + 1].done - acq_log[i].done >= Delay

\* two callers, one behind the lock, the second one slept with jitter added
C1_Witness ==
    /\ burst_allowance = 0
    /\ random_delay
    /\ Len(acq_log) >= 2
    /\ Completed(2)
    /\ acq_log[1].caller # acq_log[2].caller
    /\ acq_log[2].sleep > Delay

(***************************************************************************)
(* C2: with burst allowance N >= 1 and a full bucket, N+1 calls issued     *)
(* with no time passing between them: the first N do not sleep, the        *)
(* (N+1)th sleeps at least the full base delay.                            *)
(***************************************************************************)
BackToBack(i, n) ==
    /\ i + n <= Len(acq_log)
    /\ acq_log[i].full
    /\ \A j \in (i + 1)..(i + n) : acq_log[j].now = acq_log[i].now

C2_Burst ==
    burst_allowance >= 1 =>
        \A i \in 1..Len(acq_log) :
            BackToBack(i, burst_allowance) =>
                /\ \A j \in i..(i + burst_allowance - 1) : acq_log[j].sleep = 0
                /\ acq_log[i + burst_allowance].sleep >= Delay

C2_Witness ==
    /\ burst_allowance = MaxBurst
    /\ BackToBack(1, burst_allowance)
    /\ Completed(burst_allowance + 1)


(***************************************************************************)
(* C38: with burst allowance N and base delay d, the acquire() calls that  *)
(* complete within any window of length T number at most                   *)
(* N + floor(T/d) + 1, and the token count stays within 0..N.  The calls   *)
(* complete in the order of the log, so the windows to look at are those   *)
(* that begin and end at a completion.                                     *)
(***************************************************************************)
C38_RateBound ==
    /\ burst_tokens \in 0..burst_allowance
    /\ \A i \in 1..Len(acq_log) : \A j \in i..Len(acq_log) :
          (Completed(i) /\ Completed(j)) =>
              j - i + 1 <= burst_allowance
                           + ((acq_log[j].done - acq_log[i].done) \div Delay) + 1

\* a full bucket used up at one instant, then a call that slept the base
\* delay: N + 1 completions in a window of length d, the bucket empty
C38_Witness ==
    /\ burst_allowance = MaxBurst
    /\ burst_tokens = 0
    /\ Len(acq_log) > MaxBurst
    /\ Completed(MaxBurst + 1)
    /\ acq_log[MaxBurst + 1].sleep > 0
    /\ acq_log[MaxBurst + 1].done - acq_log[1].done = Delay

(***************************************************************************)
(* FETCH / RETRY EXECUTOR  (app/downloader/__init__.py)                    *)
(*                                                                         *)
(* An error string is the sequence of its words; substring tests of the    *)
(* code (x in error.lower()) are tests for a run of consecutive words.     *)
(* None and the empty string, both falsy, are the empty sequence.  A url   *)
(* is the set of the host markers the code searches it for.                *)
(***************************************************************************)
MaxRetries == 3
InitialDelay == 1

NoError == <<>>

\* str.lower() of one word
LowerWord(w) ==
    CASE w = "Media" -> "media"
      [] w = "Access" -> "access"
      [] w = "Imgur" -> "imgur"
      [] w = "Gfycat" -> "gfycat"
      [] w = "Giphy" -> "giphy"
      [] w = "Could" -> "could"
      [] w = "URL" -> "url"
      [] w = "Empty" -> "empty"
      [] w = "Invalid" -> "invalid"
      [] w = "Suspiciously" -> "suspiciously"
      [] w = "Internal" -> "internal"
      [] w = "Server" -> "server"
      [] w = "Error" -> "error"
      [] w = "Failed" -> "failed"
      [] w = "Content" -> "content"
      [] OTHER -> w

Lower(s) == [k \in 1..Len(s) |-> LowerWord(s[k])]

\* x in s
Contains(s, x) ==
    \E k \in 1..(Len(s) - Len(x) + 1) : SubSeq(s, k, k + Len(x) - 1) = x

\* download_file, lines 542-617: the messages it returns
Msg404 == <<"Media", "no", "longer", "available", "on", "server">>
Msg410 == <<"Media", "permanently", "removed">>
Msg429(service) == <<service, "rate", "limit", "exceeded", "-", "will", "retry">>
Msg403 == <<"Access", "forbidden", "-", "media", "may", "be", "private", "or", "removed">>
MsgImgur503 == <<"Imgur", "removed", "image", "(", "503", "bytes", ")">>
MsgSmall == <<"Suspiciously", "small", "file", "(", "512", "bytes", ")">>
MsgEmpty == <<"Empty", "file", "downloaded">>
MsgBadSignature == <<"Invalid", "file", "signature", "for", "content", "type">>
MsgGfycat == <<"Gfycat", "service", "discontinued">>
MsgGiphy == <<"Giphy", "links", "no", "longer", "supported">>
MsgNoUrl == <<"Could", "not", "process", "URL">>
\* str(e) of the exception raise_for_status() raises for a 5xx answer
MsgServerError == <<"500", ",", "message", "=", "Internal", "Server", "Error">>
\* str(e) of a timeout: the empty string
MsgTimeout == <<>>

\* download_with_retry, lines 495-502
permanent_failures ==
    { <<"removed">>, <<"410">>, <<"404">>, <<"503", "bytes">>,
      <<"Content", "permanently", "removed">>, <<"Content", "not", "found">> }

\* the test of line 510 looking for the status code only
IsPermanentMut(error) ==
    error # NoError /\ Contains(Lower(error), <<"410">>)

\* line 510: error and any(x in error.lower() for x in permanent_failures)
IsPermanent(error) ==
    error # NoError /\ \E x \in permanent_failures : Contains(Lower(error), x)

\* the urls of the model, by the host markers they contain
Urls ==
    { {"gfycat.com"}, {"giphy.com"}, {"redgifs.com"}, {"imgur.com"},
      {"imgur.com", "/a/"}, {"i.redd.it"}, {} }

\* _determine_service_type, lines 107-133
DetermineServiceType(url) ==
    IF "gfycat.com" \in url THEN "gfycat"
    ELSE IF "giphy.com" \in url THEN "giphy"
    ELSE IF "redgifs.com" \in url THEN "redgifs"
    ELSE IF "imgur.com" \in url THEN "imgur"
    ELSE IF url \cap {"i.redd.it", "v.redd.it", "preview.redd.it"} # {} THEN "reddit"
    ELSE "unknown"

\* _prepare_url, lines 619-681: TRUE when a url comes back, FALSE for None.
\* The redgifs lookup is an external call that succeeds or fails.
PrepareUrl(url, service) ==
    IF service = "redgifs" /\ "redgifs.com" \in url THEN BOOLEAN
    ELSE IF service = "imgur" /\ "/a/" \in url THEN {FALSE}
    ELSE {TRUE}

\* one limiter for every service
LimiterOfMut(service) == "reddit_limiter"

\* lines 557-562: the limiter acquired before the request
LimiterOf(service) ==
    IF service = "imgur" THEN "imgur_limiter"
    ELSE IF service = "redgifs" THEN "redgifs_limiter"
    ELSE "reddit_limiter"

\* what the server and the body checks can answer, lines 564-611
Answers(service) ==
    {"404", "410", "429", "403", "5xx", "timeout", "small", "empty",
     "bad_signature", "valid"}
        \cup (IF service = "imgur" THEN {"imgur503"} ELSE {})

MessageOf(answer, service) ==
    CASE answer = "404" -> Msg404
      [] answer = "410" -> Msg410
      [] answer = "429" -> Msg429(service)
      [] answer = "403" -> Msg403
      [] answer = "5xx" -> MsgServerError
      [] answer = "timeout" -> MsgTimeout
      [] answer = "small" -> MsgSmall
      [] answer = "empty" -> MsgEmpty
      [] answer = "bad_signature" -> MsgBadSignature
      [] answer = "imgur503" -> MsgImgur503
      [] OTHER -> NoError

Event(what, arg) == [what |-> what, arg |-> arg, d |-> 0]
SleepEvent(d) == [what |-> "sleep", arg |-> "", d |-> d]

\* download_file, lines 536-617: every (met, success, error, events) it can
\* return for the url when the server's answer is answer; events are the
\* acquire and the request, in order
DownloadFile(url, service, answer) ==
    IF "gfycat.com" \in url
    THEN {[met |-> "discontinued", ok |-> FALSE, error |-> MsgGfycat, events |-> <<>>]}
    ELSE IF "giphy.com" \in url
    THEN {[met |-> "discontinued", ok |-> FALSE, error |-> MsgGiphy, events |-> <<>>]}
    ELSE
      { IF prepared
        THEN [met |-> answer, ok |-> (answer = "valid"),
              error |-> MessageOf(answer, service),
              events |-> <<Event("acquire", LimiterOf(service)),
                           Event("request", answer)>>]
        ELSE [met |-> "no_url", ok |-> FALSE, error |-> MsgNoUrl, events |-> <<>>] :
            prepared \in PrepareUrl(url, service) }

\* TRUE when some download_file call for the url reaches the network
ReachesNetwork(url) ==
    /\ url \cap {"gfycat.com", "giphy.com"} = {}
    /\ TRUE \in PrepareUrl(url, DetermineServiceType(url))

\* lines 531-532: the delay of the next backoff sleep
NextDelayMut(d) == d + 2
NextDelay(d) == d * 2

\* the generic message without the underlying one
FailedAfterMut(last_error) ==
    <<"Failed", "after", ToString(MaxRetries), "attempts", ":">>

\* line 534
FailedAfter(last_error) ==
    <<"Failed", "after", ToString(MaxRetries), "attempts", ":">> \o last_error

DLInit ==
    /\ dl_url \in Urls
    /\ dl_pc = "loop"
    /\ dl_attempt = 0
    /\ dl_delay = InitialDelay
    /\ dl_last_error = NoError
    /\ dl_script \in IF ReachesNetwork(dl_url)
                     THEN [1..MaxRetries -> Answers(DetermineServiceType(dl_url))]
                     ELSE {[k \in 1..MaxRetries |-> "404"]}
    /\ dl_outcomes = <<>>
    /\ dl_events = <<>>
    /\ dl_result = [ok |-> FALSE, error |-> NoError]
    /\ dl_row = [media_status |-> "pending", error |-> NoError]

\* lines 504-534: one pass of the loop body up to its next suspension
Attempt ==
    /\ dl_pc = "loop"
    /\ \E r \in DownloadFile(dl_url, DetermineServiceType(dl_url),
                            dl_script[dl_attempt + 1]) :
        /\ dl_outcomes' = Append(dl_outcomes, r.met)
        /\ dl_events' = dl_events \o <<Event("download_file", r.met)>> \o r.events
        /\ IF r.ok
           THEN /\ dl_result' = [ok |-> TRUE, error |-> NoError]
                /\ dl_pc' = "done"
                /\ UNCHANGED <<dl_last_error, dl_row, dl_attempt>>
           ELSE IF IsPermanent(r.error)
           THEN /\ dl_row' = [media_status |-> "permanently_removed",
                              error |-> r.error]
                /\ dl_result' = [ok |-> FALSE, error |-> r.error]
                /\ dl_pc' = "done"
                /\ UNCHANGED <<dl_last_error, dl_attempt>>
           ELSE /\ dl_last_error' = r.error
                /\ UNCHANGED dl_row
                /\ IF dl_attempt < MaxRetries - 1
                   THEN /\ dl_pc' = "sleep"
                        /\ UNCHANGED <<dl_result, dl_attempt>>
                   ELSE /\ dl_attempt' = dl_attempt + 1
                        /\ dl_result' = [ok |-> FALSE,
                                         error |-> FailedAfter(r.error)]
                        /\ dl_pc' = "done"
    /\ UNCHANGED <<dl_url, dl_delay, dl_script>>
    /\ UNCHANGED dlOthers

\* lines 530-532: the backoff sleep, then the next attempt
Backoff ==
    /\ dl_pc = "sleep"
    /\ dl_events' = Append(dl_events, SleepEvent(dl_delay))
    /\ dl_delay' = NextDelay(dl_delay)
    /\ dl_attempt' = dl_attempt + 1
    /\ dl_pc' = "loop"
    /\ UNCHANGED <<dl_url, dl_last_error, dl_script, dl_outcomes, dl_result,
                   dl_row>>
    /\ UNCHANGED dlOthers

DLNext == Attempt \/ Backoff

DLStart == DLInit /\ RLIdle /\ QIdle /\ SchIdle /\ DBIdle /\ WIdle /\ TXIdle /\ CMIdle /\ RFIdle /\ SWIdle /\ CRIdle /\ PLIdle /\ TPIdle

DLSpec == DLStart /\ [][DLNext]_vars


\* the events of one kind, in order
EventsOf(what) == SelectSeq(dl_events, LAMBDA e : e.what = what)
Sleeps == [k \in 1..Len(EventsOf("sleep")) |-> EventsOf("sleep")[k].d]

\* the answers the design calls transient: rate limiting, server error, timeout
TransientAnswers == {"429", "5xx", "timeout"}

(***************************************************************************)
(* C3: when the first request is answered 404, download_with_retry calls   *)
(* download_file exactly once, never sleeps, and returns the failure of    *)
(* that attempt as a permanent failure.                                    *)
(***************************************************************************)
C3_NoRetryOn404 ==
    (dl_pc = "done" /\ ReachesNetwork(dl_url) /\ dl_outcomes[1] = "404") =>
        /\ Len(EventsOf("download_file")) = 1
        /\ Len(EventsOf("request")) = 1
        /\ Sleeps = <<>>
        /\ dl_result = [ok |-> FALSE, error |-> Msg404]

(***************************************************************************)
(* C4: when the first two requests fail transiently and the third          *)
(* succeeds, download_with_retry calls download_file exactly three times,  *)
(* sleeps 1 then 2 between the calls and nowhere else, and returns         *)
(* success with no error.                                                  *)
(***************************************************************************)
TwoTransientThenValid ==
    /\ ReachesNetwork(dl_url)
    /\ dl_outcomes # <<>>
    /\ \A k \in 1..Len(dl_outcomes) : dl_outcomes[k] # "no_url"
    /\ dl_script[1] \in TransientAnswers
    /\ dl_script[2] \in TransientAnswers
    /\ dl_script[3] = "valid"

C4_BackoffThenSuccess ==
    (dl_pc = "done" /\ TwoTransientThenValid) =>
        /\ Len(EventsOf("download_file")) = 3
        /\ Sleeps = <<InitialDelay, 2 * InitialDelay>>
        /\ [k \in 1..Len(dl_events) |-> dl_events[k].what] =
              <<"download_file", "acquire", "request", "sleep",
                "download_file", "acquire", "request", "sleep",
                "download_file", "acquire", "request">>
        /\ dl_result = [ok |-> TRUE, error |-> NoError]

C4_Witness ==
    /\ dl_pc = "done"
    /\ TwoTransientThenValid
    /\ dl_script[1] = "429" /\ dl_script[2] = "timeout"
    /\ dl_result.ok

\* C23: every request of download_file comes right after an acquire,
\* made in the same call, on the limiter of the url's service: the
\* imgur limiter for imgur, the redgifs limiter for redgifs, the reddit
\* limiter for every other service
C23_AcquireBeforeRequest ==
    \A k \in DOMAIN dl_events :
        dl_events[k].what = "request" =>
            /\ k > 2
            /\ dl_events[k - 2].what = "download_file"
            /\ dl_events[k - 1].what = "acquire"
            /\ dl_events[k - 1].arg =
                  (CASE DetermineServiceType(dl_url) = "imgur" -> "imgur_limiter"
                     [] DetermineServiceType(dl_url) = "redgifs" -> "redgifs_limiter"
                     [] OTHER -> "reddit_limiter")

\* requests to imgur on two attempts, each behind its own acquire
C23_Witness ==
    /\ DetermineServiceType(dl_url) = "imgur"
    /\ Len(EventsOf("request")) = 2
    /\ Len(EventsOf("acquire")) = 2

\* the error download_file returned at attempt k
ErrorOf(k) ==
    CASE dl_outcomes[k] = "no_url" -> MsgNoUrl
      [] dl_outcomes[k] = "discontinued" ->
            IF "gfycat.com" \in dl_url THEN MsgGfycat ELSE MsgGiphy
      [] OTHER -> MessageOf(dl_outcomes[k], DetermineServiceType(dl_url))

\* max_retries attempts were made, each failing with an error that is
\* not one of the permanent ones
AllAttemptsFailTransiently ==
    /\ Len(dl_outcomes) = MaxRetries
    /\ \A k \in DOMAIN dl_outcomes :
          dl_outcomes[k] # "valid" /\ ~IsPermanent(ErrorOf(k))

\* C21: when every attempt fails without a permanent classification,
\* download_with_retry has called download_file max_retries times, slept
\* initial_delay * 2^(k-1) after attempt k for k < max_retries and not
\* after the last one, and returned 'Failed after N attempts: ' followed
\* by the error of the last attempt
C21_ExhaustedRetries ==
    (dl_pc = "done" /\ AllAttemptsFailTransiently) =>
        /\ Len(EventsOf("download_file")) = MaxRetries
        /\ Sleeps = [k \in 1..(MaxRetries - 1) |-> InitialDelay * 2 ^ (k - 1)]
        /\ dl_events[Len(dl_events)].what # "sleep"
        /\ dl_result = [ok |-> FALSE,
                        error |-> <<"Failed", "after", ToString(MaxRetries),
                                    "attempts", ":">> \o ErrorOf(MaxRetries)]

\* three failing attempts with three different errors
C21_Witness ==
    /\ dl_pc = "done"
    /\ AllAttemptsFailTransiently
    /\ dl_outcomes = <<"429", "5xx", "404">>

C20_DiscontinuedFailsAtOnce ==
    (dl_url \cap {"gfycat.com", "giphy.com"} # {}) =>
        /\ EventsOf("request") = <<>>
        /\ EventsOf("acquire") = <<>>
        /\ Sleeps = <<>>
        /\ Len(EventsOf("download_file")) <= 1
        /\ dl_pc # "sleep"


(***************************************************************************)
(* WORKER LIFECYCLE  (app/services/task_queues.py lines 49-155, the same   *)
(* code in app/services/download_queue.py lines 175-261)                   *)
(*                                                                         *)
(* One event loop runs everything: a coroutine runs without interruption   *)
(* from one await to the next, so an action is the code between two        *)
(* suspension points.  start_worker() never suspends.  stop() suspends in  *)
(* wait_for and in the await that follows cancel().  A consumer loop is    *)
(* suspended inside a handler ("in_task") or inside the refill and sleep   *)
(* of an empty queue ("in_idle").                                          *)
(***************************************************************************)
MaxTasks == 3
NStoppers == 2

TaskIds == 1..MaxTasks
Stoppers == 1..NStoppers

Alive(t) == q_task[t] \in {"new", "in_task", "in_idle"}
AliveTasks == {t \in TaskIds : Alive(t)}
Created == {t \in TaskIds : q_task[t] # "unborn"}

NotStopping == [pc |-> "idle", target |-> 0, seen |-> {}, began_running |-> FALSE,
                left_alive |-> {}]

QInit ==
    /\ q_running = FALSE
    /\ q_stop_event = FALSE
    /\ q_worker_task = 0
    /\ q_task = [t \in TaskIds |-> "unborn"]
    /\ q_stop = [s \in Stoppers |-> NotStopping]

\* start_worker, lines 49-56: the test that decides whether to spawn a loop
NeedsNewTask(task) == task = 0 \/ q_task[task] \in {"exited", "cancelled"}

\* start_worker, lines 49-56 (no suspension point)
StartWorker ==
    /\ IF ~q_running
       THEN /\ q_stop_event' = FALSE
            /\ q_running' = TRUE
            /\ IF NeedsNewTask(q_worker_task)
               THEN \E t \in TaskIds :
                      /\ q_task[t] = "unborn"
                      /\ \A u \in TaskIds : u < t => q_task[u] # "unborn"
                      /\ q_task' = [q_task EXCEPT ![t] = "new"]
                      /\ q_worker_task' = t
               ELSE UNCHANGED <<q_task, q_worker_task>>
       ELSE UNCHANGED <<q_running, q_stop_event, q_task, q_worker_task>>
    /\ UNCHANGED q_stop
    /\ UNCHANGED qOthers

\* stop() returns (or raises): what it leaves behind is recorded
Return(s, began_running) ==
    q_stop' = [q_stop EXCEPT ![s] =
                 [pc |-> "idle", target |-> 0, seen |-> {},
                  began_running |-> began_running,
                  left_alive |-> {t \in q_stop[s].seen : q_task'[t] \in
                                        {"new", "in_task", "in_idle"}}]]

\* stop, lines 58-65: signal the loop, then wait for it if there is one
StopBegin(s) ==
    /\ q_stop[s].pc = "idle"
    /\ IF q_running
       THEN /\ q_running' = FALSE
            /\ q_stop_event' = TRUE
            /\ IF q_worker_task # 0 /\ Alive(q_worker_task)
               THEN q_stop' = [q_stop EXCEPT ![s] =
                                 [pc |-> "waiting", target |-> q_worker_task,
                                  seen |-> AliveTasks, began_running |-> TRUE,
                                  left_alive |-> {}]]
               ELSE q_stop' = [q_stop EXCEPT ![s] =
                                 [pc |-> "idle", target |-> 0, seen |-> {},
                                  began_running |-> TRUE,
                                  left_alive |-> AliveTasks]]
       ELSE /\ UNCHANGED <<q_running, q_stop_event>>
            /\ q_stop' = [q_stop EXCEPT ![s] = NotStopping]
    /\ UNCHANGED <<q_worker_task, q_task>>
    /\ UNCHANGED qOthers

\* lines 65 and 72: the loop ended within the timeout, wait_for returns
StopWaitDone(s) ==
    /\ q_stop[s].pc = "waiting"
    /\ ~Alive(q_stop[s].target)
    /\ q_worker_task' = 0
    /\ UNCHANGED <<q_running, q_stop_event, q_task>>
    /\ Return(s, TRUE)
    /\ UNCHANGED qOthers

\* line 65-66: the timeout expires; wait_for cancels the task it waits for,
\* waits until it has ended and raises TimeoutError
StopTimeout(s) ==
    /\ q_stop[s].pc = "waiting"
    /\ Alive(q_stop[s].target)
    /\ q_task' = [q_task EXCEPT ![q_stop[s].target] = "cancelled"]
    /\ q_stop' = [q_stop EXCEPT ![s].pc = "timedout"]
    /\ UNCHANGED <<q_running, q_stop_event, q_worker_task>>
    /\ UNCHANGED qOthers

\* lines 67-72: self._worker_task.cancel(), await self._worker_task
StopAfterTimeout(s) ==
    /\ q_stop[s].pc = "timedout"
    /\ IF q_worker_task = 0
       THEN \* None.cancel() raises AttributeError out of stop()
            /\ UNCHANGED <<q_worker_task, q_task>>
            /\ Return(s, TRUE)
       ELSE IF Alive(q_worker_task)
       THEN \* another task stands in self._worker_task: it is cancelled
            /\ q_task' = [q_task EXCEPT ![q_worker_task] = "cancelled"]
            /\ q_stop' = [q_stop EXCEPT ![s].pc = "cancelling"]
            /\ UNCHANGED q_worker_task
       ELSE /\ q_worker_task' = 0
            /\ UNCHANGED q_task
            /\ Return(s, TRUE)
    /\ UNCHANGED <<q_running, q_stop_event>>
    /\ UNCHANGED qOthers

\* lines 69-72: the await after cancel() returns
StopCancelled(s) ==
    /\ q_stop[s].pc = "cancelling"
    /\ q_worker_task' = 0
    /\ UNCHANGED <<q_running, q_stop_event, q_task>>
    /\ Return(s, TRUE)
    /\ UNCHANGED qOthers

\* _process_queue, lines 81-153: the loop resumes from its await (or runs
\* for the first time) and either leaves the loop or suspends again.
\* After a handler the stop event is tested (lines 151-153) and then the
\* while condition; after an empty-queue pass (continue, line 99) only the
\* while condition.
LoopLeaves(t) ==
    IF q_task[t] = "in_task" THEN q_stop_event \/ ~q_running ELSE ~q_running

LoopStep(t) ==
    /\ Alive(t)
    /\ IF LoopLeaves(t)
       THEN q_task' = [q_task EXCEPT ![t] = "exited"]
       ELSE \E next \in {"in_task", "in_idle"} :
               q_task' = [q_task EXCEPT ![t] = next]
    /\ UNCHANGED <<q_running, q_stop_event, q_worker_task, q_stop>>
    /\ UNCHANGED qOthers

QNext ==
    \/ StartWorker
    \/ \E s \in Stoppers : StopBegin(s)
    \/ \E s \in Stoppers : StopWaitDone(s)
    \/ \E s \in Stoppers : StopTimeout(s)
    \/ \E s \in Stoppers : StopAfterTimeout(s)
    \/ \E s \in Stoppers : StopCancelled(s)
    \/ \E t \in TaskIds : LoopStep(t)

QStart == QInit /\ RLIdle /\ DLIdle /\ SchIdle /\ DBIdle /\ WIdle /\ TXIdle /\ CMIdle /\ RFIdle /\ SWIdle /\ CRIdle /\ PLIdle /\ TPIdle

QSpec == QStart /\ [][QNext]_vars

(***************************************************************************)
(* C9: for any interleaving of start_worker() and stop() calls on one      *)
(* queue, at most one consumer loop is alive at any time.                  *)
(***************************************************************************)
C9_AtMostOneLoop == Cardinality(AliveTasks) <= 1

(***************************************************************************)
(* C10: when stop() is called on a running queue, every consumer loop      *)
(* that was alive at the call has terminated by the time stop() returns.   *)
(***************************************************************************)
C10_LoopEndedAtReturn ==
    \A s \in Stoppers :
        (q_stop[s].pc = "idle" /\ q_stop[s].began_running) =>
            q_stop[s].left_alive = {}


(***************************************************************************)
(* C33: whenever the running flag is true and no stop() call is in         *)
(* progress (start_worker() and stop() have returned), a live consumer     *)
(* loop exists: the queue is never left marked running with no loop.       *)
(***************************************************************************)
C33_RunningHasLoop ==
    (q_running /\ \A s \in Stoppers : q_stop[s].pc = "idle") => AliveTasks # {}

(***************************************************************************)
(* REFILL OF THE MEDIA BACKLOG                                             *)
(* (app/services/download_queue.py lines 70-157, DownloadQueue;            *)
(*  app/services/task_queues.py lines 265-280, the media TaskQueue)        *)
(*                                                                         *)
(* A subreddit is its status and three counts over its posts rows: all of  *)
(* them, those with downloaded = 1, those with downloaded = 0 and an error *)
(* (the rest is downloaded = 0 with error NULL).                           *)
(***************************************************************************)
MaxMarked == 2

Subs == {"A", "B"}
Totals == {2, 10, 100}
DownloadedCounts == {0, 1, 50}
FailedCounts == {0, 1}

Pending(st) == st.total - st.downloaded - st.failed

SchInit ==
    /\ sch_subs \in [Subs -> {st \in [status : {"ready", "indexing"}, total : Totals,
                                      downloaded : DownloadedCounts, failed : FailedCounts] :
                                 st.downloaded + st.failed <= st.total}]
    /\ sch_marked = 0
    /\ sch_last = [by |-> "none", name |-> "none", stats |-> sch_subs]

\* ROUND(CAST(n AS FLOAT) / CAST(total AS FLOAT) * 100, 2), in hundredths
PercentComplete(n, total) == (2 * 10000 * n + total) \div (2 * total)

\* COUNT(DISTINCT CASE WHEN p.downloaded = 1 THEN 1 END): the number of
\* distinct values of the CASE expression, which is 1 or NULL for every row
DownloadedCount(st) == IF st.downloaded > 0 THEN 1 ELSE 0

\* the WHERE clause of subreddit_stats
InStats(st) == st.status = "ready" /\ Pending(st) > 0

\* ORDER BY percent_complete ASC, total_posts DESC
Before(a, b) ==
    LET pa == PercentComplete(DownloadedCount(a), a.total)
        pb == PercentComplete(DownloadedCount(b), b.total)
    IN  pa < pb \/ (pa = pb /\ a.total > b.total)

\* LIMIT 1: the rows nothing is ordered before
FirstRows == {s \in Subs : /\ InStats(sch_subs[s])
                           /\ \A o \in Subs : InStats(sch_subs[o]) =>
                                  ~Before(sch_subs[o], sch_subs[s])}

\* DownloadQueue.get_next_batch, lines 70-109
GetNextBatch ==
    /\ IF FirstRows = {}
       THEN sch_last' = [by |-> "get_next_batch", name |-> "none", stats |-> sch_subs]
       ELSE \E s \in FirstRows :
              sch_last' = [by |-> "get_next_batch", name |-> s, stats |-> sch_subs]
    /\ UNCHANGED <<sch_subs, sch_marked>>
    /\ UNCHANGED schOthers

\* TaskQueue._add_pending_media_tasks, lines 265-280:
\* WHERE status = 'ready' ORDER BY RANDOM() LIMIT 1
AddPendingMediaTasks ==
    /\ IF \A s \in Subs : sch_subs[s].status # "ready"
       THEN sch_last' = [by |-> "_add_pending_media_tasks", name |-> "none",
                         stats |-> sch_subs]
       ELSE \E s \in Subs :
              /\ sch_subs[s].status = "ready"
              /\ sch_last' = [by |-> "_add_pending_media_tasks", name |-> s,
                              stats |-> sch_subs]
    /\ UNCHANGED <<sch_subs, sch_marked>>
    /\ UNCHANGED schOthers

\* DatabasePool.mark_post_downloaded, lines 358-380, on a pending post
MarkPostDownloaded(s, success) ==
    /\ sch_marked < MaxMarked
    /\ Pending(sch_subs[s]) > 0
    /\ sch_marked' = sch_marked + 1
    /\ sch_subs' = [sch_subs EXCEPT ![s] =
                      IF success THEN [@ EXCEPT !.downloaded = @ + 1]
                                 ELSE [@ EXCEPT !.failed = @ + 1]]
    /\ UNCHANGED sch_last
    /\ UNCHANGED schOthers

SchNext ==
    \/ GetNextBatch
    \/ AddPendingMediaTasks
    \/ \E s \in Subs, success \in BOOLEAN : MarkPostDownloaded(s, success)

SchStart == SchInit /\ RLIdle /\ DLIdle /\ QIdle /\ DBIdle /\ WIdle /\ TXIdle /\ CMIdle /\ RFIdle /\ SWIdle /\ CRIdle /\ PLIdle /\ TPIdle

SchSpec == SchStart /\ [][SchNext]_vars

\* the subreddits the refill may choose from: ready, with a pending post
Eligible(stats) == {s \in Subs : stats[s].status = "ready" /\ Pending(stats[s]) > 0}

\* a is strictly preferred to b: lower downloaded / total, then larger total
Preferred(a, b) ==
    \/ a.downloaded * b.total < b.downloaded * a.total
    \/ (a.downloaded * b.total = b.downloaded * a.total /\ a.total > b.total)

(***************************************************************************)
(* C6: whenever the backlog is refilled and some ready subreddit has       *)
(* pending posts, the subreddit chosen is one of those with the lowest     *)
(* downloaded / total, ties broken by the larger total.  With A at 1 of 10 *)
(* and B at 50 of 100 this is A.                                           *)
(***************************************************************************)
C6_LowestPercentFirst ==
    (sch_last.by # "none" /\ Eligible(sch_last.stats) # {}) =>
        /\ sch_last.name \in Eligible(sch_last.stats)
        /\ \A o \in Eligible(sch_last.stats) :
              ~Preferred(sch_last.stats[o], sch_last.stats[sch_last.name])


(***************************************************************************)
(* MEDIA PROCESSING AND DEDUPLICATION                                      *)
(* (app/downloader/__init__.py lines 135-488, app/database/pool.py lines   *)
(* 358-451, app/core/paths.py lines 50-98, app/database/schema.py)         *)
(*                                                                         *)
(* The media worker is one consumer loop: it runs one process_post at a    *)
(* time.  A call is modelled item by item: BeginProcess takes a pending    *)
(* post, ProcessItem fetches and stores one media item, FinishProcess      *)
(* writes the post's final status.                                         *)
(***************************************************************************)
PostIds == {"p1", "p2"}
Subreddits == {"s1", "s2"}
Scores == {1, 2}
Times == {1, 2}
MediaUrls == {"u1", "u2", "u3"}
Strategies == {"highest_voted", "oldest"}

\* what the server holds at a url: u1 and u2 are two urls of the same
\* bytes, u3 serves other bytes whose digest begins with the same 16 digits
Bytes(url) == IF url = "u3" THEN "y" ELSE "x"

\* PathManager._determine_extension, lines 77-98 (u2 ends in .png)
DetermineExtension(url) == IF url = "u2" THEN ".png" ELSE ".jpg"

\* _calculate_file_hash, lines 87-92: the hex digest, as its first 16
\* digits and the rest
CalculateFileHash(bytes) == <<"prefix", bytes>>

\* line 382: file_hash[:16]
QuickHash(file_hash) == SubSeq(file_hash, 1, 1)

NullPath == [kind |-> "null", sub |-> "", post |-> "", pos |-> 0, ext |-> ""]

\* PathManager.get_media_path, lines 50-63: media/<subreddit>/<post>_<position><ext>
GetMediaPath(post_id, media_url, subreddit, position) ==
    [kind |-> "file", sub |-> subreddit, post |-> post_id, pos |-> position,
     ext |-> IF media_url = "" THEN ".jpg" ELSE DetermineExtension(media_url)]

\* PathManager.get_media_url_path is called (line 372) but not defined in
\* the package: the item's own path, in the form the browser is given
GetMediaUrlPath(post_id, media_url, subreddit, position) ==
    [kind |-> "url", sub |-> subreddit, post |-> post_id, pos |-> position,
     ext |-> DetermineExtension(media_url)]

\* the file a browser path is served from
FileOfUrlPath(url_path) == [url_path EXCEPT !.kind = "file"]

\* PathManager.get_temp_path, lines 65-69: media/temp/<post>_<position>_temp
GetTempPath(post_id, position) ==
    [kind |-> "temp", sub |-> "", post |-> post_id, pos |-> position, ext |-> ""]

\* open(path, 'wb') / shutil.copy2: the file at path now holds bytes
WriteFile(fs, path, bytes) ==
    [f \in (DOMAIN fs) \cup {path} |-> IF f = path THEN bytes ELSE fs[f]]

\* if os.path.exists(path): os.remove(path)
RemoveFile(fs, path) == [f \in (DOMAIN fs) \ {path} |-> fs[f]]

\* the store as one value: what the operations below take and return
Store == [config |-> config, posts |-> posts, post_media |-> post_media,
          media_deduplication |-> media_deduplication,
          media_links |-> media_links, files |-> files]

\* the rows save_posts wrote for a post that was never processed
\* (pool.save_posts, lines 267-356)
NewPostRow(subreddit, score, created_utc) ==
    [subreddit |-> subreddit, score |-> score, created_utc |-> created_utc,
     downloaded |-> 0, error |-> NoError, media_status |-> "pending"]

NewMediaRow(url) ==
    [media_url |-> url, downloaded |-> 0, download_path |-> NullPath,
     error |-> NoError, media_status |-> "pending"]

\* a post has one media item or two
ItemLists == {<<u>> : u \in MediaUrls} \cup {<<u, v>> : u \in MediaUrls, v \in MediaUrls}

NotProcessing == [post |-> "none", idx |-> 0, all_success |-> TRUE,
                  any_permanent_failure |-> FALSE]

DBInit ==
    /\ config \in Strategies
    /\ \E score \in Scores, created \in Times, sub \in Subreddits :
          \* highest_voted reads no created_utc, oldest reads no score
          /\ config = "highest_voted" => created = 1
          /\ config = "oldest" => score = 1
          /\ posts = [p \in PostIds |->
                        IF p = "p1" THEN NewPostRow("s1", score, created)
                                    ELSE NewPostRow(sub, 1, 1)]
    /\ \E items \in [PostIds -> ItemLists] :
          post_media = [p \in PostIds |->
                          [k \in 1..Len(items[p]) |-> NewMediaRow(items[p][k])]]
    /\ media_deduplication = <<>>
    /\ media_links = <<>>
    /\ files = <<>>
    /\ pp = NotProcessing
    /\ pp_log = [items |-> [p \in PostIds |-> <<>>], done |-> <<>>]


\* UPDATE post_media SET ... WHERE post_id = ? AND position = ?
UpdateMediaRow(pm, post_id, position, row) ==
    IF position + 1 \in DOMAIN pm[post_id]
    THEN [pm EXCEPT ![post_id][position + 1] = row]
    ELSE pm

NoRow == [canonical_hash |-> <<>>, canonical_path |-> NullPath,
          first_seen_post_id |-> "none", download_path |-> NullPath,
          id |-> "none", score |-> 0, created_utc |-> 0]

\* _check_for_duplicates, lines 141-149: the rows of the join of
\* media_deduplication with the post_media rows of its first_seen_post_id
JoinRows(S, quick_hash, subreddit, post_id) ==
    LET positions == UNION {DOMAIN S.post_media[q] : q \in DOMAIN S.post_media}
        hits == {dm \in (DOMAIN S.media_deduplication) \X positions :
                   LET d == S.media_deduplication[dm[1]]
                   IN  /\ dm[2] \in DOMAIN S.post_media[d.first_seen_post_id]
                       /\ d.quick_hash = quick_hash
                       /\ S.posts[d.first_seen_post_id].subreddit = subreddit
                       /\ d.first_seen_post_id # post_id}
    IN  {LET d == S.media_deduplication[dm[1]]
         IN  [canonical_hash |-> d.canonical_hash,
              canonical_path |-> d.canonical_path,
              first_seen_post_id |-> d.first_seen_post_id,
              download_path |-> S.post_media[d.first_seen_post_id][dm[2]].download_path,
              id |-> d.first_seen_post_id,
              score |-> S.posts[d.first_seen_post_id].score,
              created_utc |-> S.posts[d.first_seen_post_id].created_utc] : dm \in hits}

\* the lookup without the comparison of line 158
CheckForDuplicatesMut(S, file_hash, quick_hash, subreddit, post_id) ==
    LET rows == JoinRows(S, quick_hash, subreddit, post_id)
    IN  IF rows = {}
        THEN {[is_duplicate |-> FALSE, canonical_post |-> NoRow]}
        ELSE {[is_duplicate |-> TRUE, canonical_post |-> potential_match] :
                 potential_match \in rows}

\* _check_for_duplicates, lines 135-164: fetchone() takes one row of the
\* join, in no stated order; only that row's full hash is compared
CheckForDuplicates(S, file_hash, quick_hash, subreddit, post_id) ==
    LET rows == JoinRows(S, quick_hash, subreddit, post_id)
    IN  IF rows = {}
        THEN {[is_duplicate |-> FALSE, canonical_post |-> NoRow]}
        ELSE {IF potential_match.canonical_hash = file_hash
              THEN [is_duplicate |-> TRUE, canonical_post |-> potential_match]
              ELSE [is_duplicate |-> FALSE, canonical_post |-> NoRow] :
                 potential_match \in rows}

\* _handle_duplicate, lines 175-181
KeepCurrentMut(strategy, current_post, canonical_post) ==
    \/ strategy = "highest_voted" /\ current_post.score < canonical_post.score
    \/ strategy = "oldest" /\ current_post.created_utc < canonical_post.created_utc
KeepCurrent(strategy, current_post, canonical_post) ==
    \/ strategy = "highest_voted" /\ current_post.score > canonical_post.score
    \/ strategy = "oldest" /\ current_post.created_utc < canonical_post.created_utc

\* _handle_duplicate, lines 182-262: the current post's file becomes the
\* canonical one.  The INSERT into media_links of a NULL symlink_path breaks
\* NOT NULL: the transaction is rolled back (pool.connection, lines 76-79)
\* and the handler of lines 311-315 removes the temp file.
ReplaceCanonical(S, post_id, canonical_post, temp_path, url_path, position, file_hash) ==
    LET new_final_path == GetMediaPath(post_id, "", S.posts[post_id].subreddit, position)
        fs == WriteFile(RemoveFile(S.files, canonical_post.canonical_path),
                        new_final_path, S.files[temp_path])
        dedup == [d \in DOMAIN S.media_deduplication |->
                    IF S.media_deduplication[d].canonical_hash = file_hash
                    THEN [S.media_deduplication[d] EXCEPT
                            !.canonical_path = new_final_path,
                            !.first_seen_post_id = post_id]
                    ELSE S.media_deduplication[d]]
        repointed == [q \in DOMAIN S.post_media |->
                        [k \in DOMAIN S.post_media[q] |->
                           IF /\ S.post_media[q][k].download_path = canonical_post.download_path
                              /\ q # post_id
                           THEN [S.post_media[q][k] EXCEPT !.download_path = url_path]
                           ELSE S.post_media[q][k]]]
        mine == [repointed[post_id][position + 1] EXCEPT
                    !.download_path = url_path, !.downloaded = 1,
                    !.error = NoError, !.media_status = "downloaded"]
    IN  IF canonical_post.download_path = NullPath
        THEN [S EXCEPT !.files = RemoveFile(fs, temp_path)]
        ELSE [S EXCEPT
                !.files = fs,
                !.media_deduplication = dedup,
                !.post_media = UpdateMediaRow(repointed, post_id, position, mine),
                !.media_links = Append(@, [post_id |-> canonical_post.id,
                                           canonical_hash |-> file_hash,
                                           symlink_path |-> canonical_post.download_path])]

\* _handle_duplicate, lines 264-307: the canonical file stays, the current
\* post is linked to it
LinkToCanonical(S, post_id, canonical_post, temp_path, url_path, position, file_hash) ==
    [S EXCEPT
       !.files = RemoveFile(S.files, temp_path),
       !.media_links = Append(S.media_links,
                              [post_id |-> post_id, canonical_hash |-> file_hash,
                               symlink_path |-> url_path]),
       !.post_media = UpdateMediaRow(S.post_media, post_id, position,
                         [S.post_media[post_id][position + 1] EXCEPT
                            !.download_path = canonical_post.download_path,
                            !.downloaded = 1, !.error = NoError,
                            !.media_status = "duplicate"]),
       !.media_deduplication =
           [d \in DOMAIN S.media_deduplication |->
              IF S.media_deduplication[d].canonical_hash = file_hash
              THEN [S.media_deduplication[d] EXCEPT !.duplicate_count = @ + 1]
              ELSE S.media_deduplication[d]]]

\* _handle_duplicate, lines 166-315
HandleDuplicate(S, post_id, canonical_post, temp_path, url_path, position, file_hash) ==
    IF KeepCurrent(S.config, S.posts[post_id], canonical_post)
    THEN ReplaceCanonical(S, post_id, canonical_post, temp_path, url_path, position, file_hash)
    ELSE LinkToCanonical(S, post_id, canonical_post, temp_path, url_path, position, file_hash)

\* process_post, lines 391-432: not a duplicate
StoreCanonical(S, post_id, final_path, temp_path, url_path, position, file_hash) ==
    [S EXCEPT
       !.files = RemoveFile(WriteFile(S.files, final_path, S.files[temp_path]), temp_path),
       !.media_deduplication =
           Append(S.media_deduplication,
                  [canonical_hash |-> file_hash, quick_hash |-> QuickHash(file_hash),
                   canonical_path |-> final_path, first_seen_post_id |-> post_id,
                   duplicate_count |-> 0]),
       !.post_media = UpdateMediaRow(S.post_media, post_id, position,
                         [S.post_media[post_id][position + 1] EXCEPT
                            !.download_path = url_path, !.downloaded = 1,
                            !.error = NoError, !.media_status = "downloaded"])]

\* process_post, lines 437-457: the item's fetch failed
\* (download_with_retry, lines 510-520, has marked every row of the url
\* when the failure is one of its permanent ones)
IsPermanentFailure(error) ==
    error # NoError /\ \E x \in { <<"removed">>, <<"410">>, <<"404">>,
                                  <<"permanently", "removed">>,
                                  <<"content", "not", "found">> } :
                          Contains(Lower(error), x)

MarkUrlRemoved(pm, url, error) ==
    [q \in DOMAIN pm |->
       [k \in DOMAIN pm[q] |->
          IF pm[q][k].media_url = url
          THEN [pm[q][k] EXCEPT !.media_status = "permanently_removed", !.error = error]
          ELSE pm[q][k]]]

\* a failure handler that resets every row of the post
FailItemMut(S, post_id, url, position, error) ==
    [S EXCEPT !.post_media =
        [S.post_media EXCEPT ![post_id] =
            [k \in DOMAIN S.post_media[post_id] |->
                [S.post_media[post_id][k] EXCEPT
                    !.downloaded = 0, !.download_path = NullPath,
                    !.error = error, !.media_status = "error"]]]]

FailItem(S, post_id, url, position, error) ==
    LET marked == IF IsPermanent(error) THEN MarkUrlRemoved(S.post_media, url, error)
                                        ELSE S.post_media
    IN  [S EXCEPT !.post_media = UpdateMediaRow(marked, post_id, position,
                         [marked[post_id][position + 1] EXCEPT
                            !.error = error, !.media_status = "error"])]

\* what download_with_retry returns (lines 490-534)
RetryResults ==
    { [ok |-> TRUE, error |-> NoError],
      [ok |-> FALSE, error |-> Msg410],
      [ok |-> FALSE, error |-> FailedAfter(Msg404)] }

\* process_post, lines 359-457: one pass of the loop over media_items
ItemOutcomes(S, post_id, position) ==
    LET url == S.post_media[post_id][position + 1].media_url
        subreddit == S.posts[post_id].subreddit
        final_path == GetMediaPath(post_id, url, subreddit, position)
        url_path == GetMediaUrlPath(post_id, url, subreddit, position)
        temp_path == GetTempPath(post_id, position)
        fetched == [S EXCEPT !.files = WriteFile(S.files, temp_path, Bytes(url))]
        file_hash == CalculateFileHash(Bytes(url))
    IN  { [store |-> FailItem(S, post_id, url, position, r.error),
           success |-> FALSE, permanent |-> IsPermanentFailure(r.error),
           what |-> IF r.error = Msg410 THEN "410" ELSE "failed"] :
             r \in {r \in RetryResults : ~r.ok} }
        \cup
        { IF c.is_duplicate
          THEN [store |-> HandleDuplicate(fetched, post_id, c.canonical_post, temp_path,
                                          url_path, position, file_hash),
                success |-> TRUE, permanent |-> FALSE, what |-> "duplicate"]
          ELSE [store |-> StoreCanonical(fetched, post_id, final_path, temp_path,
                                         url_path, position, file_hash),
                success |-> TRUE, permanent |-> FALSE, what |-> "stored"] :
             c \in CheckForDuplicates(fetched, file_hash, QuickHash(file_hash),
                                      subreddit, post_id) }

\* DatabasePool.mark_post_downloaded, lines 358-380
MarkPost(ps, post_id, success, error, media_status) ==
    [ps EXCEPT ![post_id] =
        IF success
        THEN [@ EXCEPT !.downloaded = 1, !.error = NoError, !.media_status = media_status]
        ELSE [@ EXCEPT !.downloaded = 0, !.error = error, !.media_status = media_status]]

MsgSomeFailed == <<"Some", "media", "items", "failed", "to", "download">>

\* DatabasePool.get_pending_downloads, lines 382-451: the posts a refill
\* enqueues
PendingDownload(p) ==
    /\ posts[p].downloaded = 0
    /\ posts[p].error = NoError
    /\ Len(post_media[p]) > 0

\* the worker takes the post's task and calls process_post (lines 317-360)
BeginProcess(p) ==
    /\ pp.post = "none"
    /\ PendingDownload(p)
    /\ pp' = [post |-> p, idx |-> 0, all_success |-> TRUE,
              any_permanent_failure |-> FALSE]
    /\ pp_log' = [pp_log EXCEPT !.items[p] = <<>>]
    /\ UNCHANGED <<config, posts, post_media, media_deduplication, media_links, files>>
    /\ UNCHANGED dbOthers

\* process_post, lines 361-457, for the item at index pp.idx
ProcessItem ==
    /\ pp.post # "none"
    /\ pp.idx < Len(post_media[pp.post])
    /\ \E o \in ItemOutcomes(Store, pp.post, pp.idx) :
          /\ post_media' = o.store.post_media
          /\ media_deduplication' = o.store.media_deduplication
          /\ media_links' = o.store.media_links
          /\ files' = o.store.files
          /\ pp' = [pp EXCEPT !.idx = @ + 1,
                              !.all_success = @ /\ o.success,
                              !.any_permanent_failure = @ \/ o.permanent]
          /\ pp_log' = [pp_log EXCEPT !.items[pp.post] = Append(@, o.what)]
    /\ UNCHANGED <<config, posts>>
    /\ UNCHANGED dbOthers

\* process_post, lines 459-477: the post's final status
FinishProcess ==
    /\ pp.post # "none"
    /\ pp.idx = Len(post_media[pp.post])
    /\ posts' = IF pp.all_success
                THEN MarkPost(posts, pp.post, TRUE, NoError, "downloaded")
                ELSE MarkPost(posts, pp.post, FALSE, MsgSomeFailed,
                              IF pp.any_permanent_failure THEN "permanently_removed"
                                                          ELSE "error")
    /\ pp' = NotProcessing
    /\ pp_log' = [pp_log EXCEPT !.done = Append(@, pp.post)]
    /\ UNCHANGED <<config, post_media, media_deduplication, media_links, files>>
    /\ UNCHANGED dbOthers

DBNext ==
    \/ \E p \in PostIds : BeginProcess(p)
    \/ ProcessItem
    \/ FinishProcess

DBStart == DBInit /\ RLIdle /\ DLIdle /\ QIdle /\ SchIdle /\ WIdle /\ TXIdle /\ CMIdle /\ RFIdle /\ SWIdle /\ CRIdle /\ PLIdle /\ TPIdle

DBSpec == DBStart /\ [][DBNext]_vars


\* process_post has returned for p and nothing has run since
Returned(p) ==
    /\ pp.post = "none"
    /\ Len(pp_log.done) > 0
    /\ pp_log.done[Len(pp_log.done)] = p

\* the file hash of the bytes a post's only media item is served with
OnlyHash(p) == CalculateFileHash(Bytes(post_media[p][1].media_url))

\* two posts of one subreddit, one media item each, the same bytes,
\* different scores, under highest_voted, each processed once with a
\* successful fetch
TwoPostsSameBytes(lower, higher) ==
    /\ config = "highest_voted"
    /\ lower # higher
    /\ posts[lower].subreddit = posts[higher].subreddit
    /\ posts[lower].score < posts[higher].score
    /\ Len(post_media[lower]) = 1 /\ Len(post_media[higher]) = 1
    /\ OnlyHash(lower) = OnlyHash(higher)
    /\ pp.post = "none"
    /\ \A p \in {lower, higher} :
          /\ pp_log.items[p] \in {<<"stored">>, <<"duplicate">>}
          /\ \E k \in DOMAIN pp_log.done : pp_log.done[k] = p

C7_PartialPermanentFailure ==
    \A p \in PostIds :
        (/\ Returned(p)
         /\ Len(pp_log.items[p]) = 2
         /\ pp_log.items[p][1] \in {"stored", "duplicate"}
         /\ pp_log.items[p][2] = "410")
        => /\ posts[p].media_status = "permanently_removed"
           /\ posts[p].downloaded = 0
           /\ post_media[p][1].downloaded = 1
           /\ post_media[p][1].download_path # NullPath

(***************************************************************************)
(* C8: every post_media row with downloaded = 1 has a download_path, the   *)
(* path is that of an existing file, and the hash of the file's bytes is   *)
(* the canonical_hash of some media_deduplication record.                  *)
(***************************************************************************)
C8_DownloadedRowHasFile ==
    \A p \in PostIds : \A k \in DOMAIN post_media[p] :
        post_media[p][k].downloaded = 1 =>
            /\ post_media[p][k].download_path # NullPath
            /\ FileOfUrlPath(post_media[p][k].download_path) \in DOMAIN files
            /\ \E d \in DOMAIN media_deduplication :
                  media_deduplication[d].canonical_hash =
                      CalculateFileHash(files[FileOfUrlPath(post_media[p][k].download_path)])


\* C14: media_deduplication holds at most one record per canonical_hash
\* among the posts of one subreddit
C14_OneRecordPerHash ==
    \A d, e \in DOMAIN media_deduplication :
        (/\ media_deduplication[d].canonical_hash =
                media_deduplication[e].canonical_hash
         /\ posts[media_deduplication[d].first_seen_post_id].subreddit =
                posts[media_deduplication[e].first_seen_post_id].subreddit)
            => d = e

\* the item that ProcessItem is about to handle
CurrentHash == CalculateFileHash(Bytes(post_media[pp.post][pp.idx + 1].media_url))

ClassifiedDuplicate ==
    /\ pp.post # "none"
    /\ pp'.post = pp.post
    /\ pp'.idx = pp.idx + 1
    /\ pp_log'.items[pp.post] = Append(pp_log.items[pp.post], "duplicate")

\* C15: an item is handled as a duplicate only when, at that moment, a
\* canonical record of another post of the subreddit carries the item's
\* full hash; sharing the quick hash is not enough
C15_FullHashDecides ==
    [][ClassifiedDuplicate =>
          \E d \in DOMAIN media_deduplication :
              /\ media_deduplication[d].canonical_hash = CurrentHash
              /\ media_deduplication[d].first_seen_post_id # pp.post
              /\ posts[media_deduplication[d].first_seen_post_id].subreddit =
                     posts[pp.post].subreddit]_vars

\* an item was stored as new although the record of another post of
\* the subreddit shared its quick hash
C15_Witness ==
    \E d, e \in DOMAIN media_deduplication :
        /\ d < e
        /\ media_deduplication[d].quick_hash = media_deduplication[e].quick_hash
        /\ media_deduplication[d].canonical_hash # media_deduplication[e].canonical_hash
        /\ media_deduplication[d].first_seen_post_id # media_deduplication[e].first_seen_post_id
        /\ posts[media_deduplication[d].first_seen_post_id].subreddit =
               posts[media_deduplication[e].first_seen_post_id].subreddit

\* C16: every media_deduplication record's canonical_path is the path of
\* an existing file whose hash is the record's canonical_hash
C16_CanonicalFileExists ==
    \A d \in DOMAIN media_deduplication :
        /\ media_deduplication[d].canonical_path \in DOMAIN files
        /\ CalculateFileHash(files[media_deduplication[d].canonical_path]) =
               media_deduplication[d].canonical_hash

\* C17: when process_post has returned and left the post downloaded with
\* no error, each of its media rows is stored or linked (downloaded = 1)
\* or carries an error
C17_NoSilentLoss ==
    \A p \in PostIds :
        (/\ Returned(p)
         /\ posts[p].downloaded = 1
         /\ posts[p].error = NoError)
        => \A k \in DOMAIN post_media[p] :
              \/ post_media[p][k].downloaded = 1
              \/ post_media[p][k].error # NoError

\* the canonical records the item ProcessItem is about to handle
\* duplicates: same full hash, another post of the subreddit
RecordsOfCurrent ==
    {d \in DOMAIN media_deduplication :
        /\ media_deduplication[d].canonical_hash = CurrentHash
        /\ media_deduplication[d].first_seen_post_id # pp.post
        /\ posts[media_deduplication[d].first_seen_post_id].subreddit =
               posts[pp.post].subreddit}

\* the item duplicates the file of exactly one canonical record
DuplicatesOne(d) == ClassifiedDuplicate /\ RecordsOfCurrent = {d}

\* the post_media rows of other posts that name the file at path
RowsAt(pm, path) ==
    {qk \in PostIds \X {1, 2} :
        /\ qk[1] # pp.post
        /\ qk[2] \in DOMAIN pm[qk[1]]
        /\ pm[qk[1]][qk[2]].download_path # NullPath
        /\ FileOfUrlPath(pm[qk[1]][qk[2]].download_path) = path}

\* C24: under highest_voted, when the item duplicates the file of a
\* canonical record whose post has the lower score, the record then names
\* the current post and a new, existing file; every row of another post
\* that named the old file names the new one and none names the old one;
\* and one media_links row was added, for the demoted post
C24_Promotion ==
    [][\A d \in DOMAIN media_deduplication :
          (/\ DuplicatesOne(d)
           /\ config = "highest_voted"
           /\ posts[pp.post].score >
                  posts[media_deduplication[d].first_seen_post_id].score)
          => /\ media_deduplication'[d].first_seen_post_id = pp.post
             /\ media_deduplication'[d].canonical_path #
                    media_deduplication[d].canonical_path
             /\ media_deduplication'[d].canonical_path \in DOMAIN files'
             /\ RowsAt(post_media, media_deduplication[d].canonical_path)
                    \subseteq RowsAt(post_media', media_deduplication'[d].canonical_path)
             /\ RowsAt(post_media', media_deduplication[d].canonical_path) = {}
             /\ Len(media_links') = Len(media_links) + 1
             /\ media_links'[Len(media_links')].post_id =
                    media_deduplication[d].first_seen_post_id]_vars

\* the current post does not beat the post of record d
DoesNotBeat(d) ==
    LET owner == posts[media_deduplication[d].first_seen_post_id]
    IN  \/ config = "highest_voted" /\ posts[pp.post].score <= owner.score
        \/ config = "oldest" /\ posts[pp.post].created_utc >= owner.created_utc

\* C25: when the item duplicates the file of a canonical record whose
\* post it does not beat, the record keeps its path and its post and its
\* duplicate_count grows by one, the temp file is gone, one media_links
\* row was added for the current post, and the item's row names the
\* canonical file
C25_LinkedToCanonical ==
    [][\A d \in DOMAIN media_deduplication :
          (DuplicatesOne(d) /\ DoesNotBeat(d))
          => /\ media_deduplication'[d].canonical_path =
                    media_deduplication[d].canonical_path
             /\ media_deduplication'[d].first_seen_post_id =
                    media_deduplication[d].first_seen_post_id
             /\ media_deduplication'[d].duplicate_count =
                    media_deduplication[d].duplicate_count + 1
             /\ GetTempPath(pp.post, pp.idx) \notin DOMAIN files'
             /\ Len(media_links') = Len(media_links) + 1
             /\ media_links'[Len(media_links')].post_id = pp.post
             /\ post_media'[pp.post][pp.idx + 1].download_path # NullPath
             /\ FileOfUrlPath(post_media'[pp.post][pp.idx + 1].download_path) =
                    media_deduplication[d].canonical_path]_vars

\* C26: the media items of a post are independent. When process_post has
\* returned, every item of the post has been attempted once, whatever the
\* outcomes of the items before it; and the pass of a failing item (a
\* permanent or a transient failure) leaves the downloaded flag and the
\* download_path of every other item of the post that already succeeded
\* as they were.
ItemFails ==
    /\ pp.post # "none"
    /\ pp'.post = pp.post
    /\ pp'.idx = pp.idx + 1
    /\ pp_log'.items[pp.post][pp.idx + 1] \in {"410", "failed"}

C34_DownloadedMeansAllItems ==
    \A p \in PostIds :
        (/\ Returned(p)
         /\ posts[p].downloaded = 1
         /\ posts[p].media_status = "downloaded")
        => \A k \in DOMAIN post_media[p] :
              /\ post_media[p][k].downloaded = 1
              /\ post_media[p][k].media_status \in {"downloaded", "duplicate"}

\* re-indexings of a subreddit that save an already processed post again
MaxResaves == 1

\* the rows of media_links that survive the REPLACE of the posts row of
\* post_id (FOREIGN KEY(post_id) REFERENCES posts(id) ON DELETE CASCADE)
CascadeLinks(links, post_id) == SelectSeq(links, LAMBDA l : l.post_id # post_id)

\* DatabasePool.save_posts, lines 267-356, for one post that process_post
\* has handled: INSERT OR REPLACE INTO posts with the columns of the
\* listing (downloaded, error take their defaults), DELETE FROM post_media
\* and one INSERT per media item
SavePosts(p) ==
    /\ pp.post = "none"
    /\ \E k \in DOMAIN pp_log.done : pp_log.done[k] = p
    /\ Cardinality({k \in DOMAIN pp_log.done : pp_log.done[k] = p}) <= MaxResaves
    /\ posts' = [posts EXCEPT ![p] =
                   NewPostRow(posts[p].subreddit, posts[p].score, posts[p].created_utc)]
    /\ post_media' = [post_media EXCEPT ![p] =
                        [k \in DOMAIN post_media[p] |->
                            NewMediaRow(post_media[p][k].media_url)]]
    /\ media_links' = CascadeLinks(media_links, p)
    /\ UNCHANGED <<config, media_deduplication, files, pp, pp_log>>
    /\ UNCHANGED dbOthers

SaveNext ==
    \/ \E p \in PostIds : BeginProcess(p)
    \/ ProcessItem
    \/ FinishProcess
    \/ \E p \in PostIds : SavePosts(p)

\* the store with the metadata worker re-indexing beside the media worker,
\* over posts of one media item
SaveStart == DBStart /\ (\A p \in PostIds : Len(post_media[p]) = 1)

SaveSpec == SaveStart /\ [][SaveNext]_vars

\* C35: save_posts leaves the persisted download state alone: a step that
\* is not one of process_post (no post is being processed before or after
\* it, and no post was finished by it) keeps every post's downloaded flag,
\* media_status and error, and every media row's downloaded flag and
\* download_path.
C35_SaveKeepsDownloadState ==
    [][(pp.post = "none" /\ pp'.post = "none" /\ pp_log' = pp_log) =>
          \A p \in PostIds :
             /\ posts'[p].downloaded = posts[p].downloaded
             /\ posts'[p].media_status = posts[p].media_status
             /\ posts'[p].error = posts[p].error
             /\ \A k \in DOMAIN post_media[p] :
                   /\ post_media'[p][k].downloaded = post_media[p][k].downloaded
                   /\ post_media'[p][k].download_path = post_media[p][k].download_path]_vars

\* C40: after process_post has returned, no temp file of the post's media
\* items is left in the temp directory, whichever way each item ended
\* (stored as canonical, discarded as duplicate, promoted to canonical,
\* failed download, failed validation).
C40_NoTempFileLeft ==
    \A p \in PostIds :
        Returned(p) =>
            \A k \in DOMAIN post_media[p] :
                GetTempPath(p, k - 1) \notin DOMAIN files

\* ---------------------------------------------------------------------
\* The consumer loop of one task queue
\* src/app/services/task_queues.py, TaskQueue._process_queue (75-155),
\* _process_media_download (282-310), _process_comment_fetch (312-394)
\* ---------------------------------------------------------------------

\* tasks put on the queue over one run
MaxAdded == 3

\* self.history = deque(maxlen=1000)
HistoryMaxLen == 1000

TaskTypes == {"media_download", "comment_fetch", "metadata_fetch"}

\* a task is a dict; has_keys tells whether it carries the keys its
\* handler reads ('id' and 'subreddit', 'post_id', 'name')
TaskData(id, has_keys) == [id |-> id, has_keys |-> has_keys]

\* how the awaited calls inside a handler end
CallOutcomes == {"true", "false", "raises"}

WInit ==
    /\ w_task_type \in TaskTypes
    /\ w_running = TRUE
    /\ w_stop_event = FALSE
    /\ w_queue = <<>>
    /\ w_pc = "top"
    /\ w_current = <<>>
    /\ w_added = 0
    /\ w_dispatched = <<>>
    /\ w_history = <<>>

\* add_task (35-37): await self.queue.put(task_data)
AddTask(has_keys) ==
    /\ w_added < MaxAdded
    /\ w_added' = w_added + 1
    /\ w_queue' = Append(w_queue, TaskData(w_added + 1, has_keys))
    /\ UNCHANGED <<w_task_type, w_running, w_stop_event, w_pc, w_current,
                   w_dispatched, w_history>>
    /\ UNCHANGED wOthers

\* stop (57-73) as the loop sees it: running cleared, stop event set
StopRequested ==
    /\ w_running
    /\ w_running' = FALSE
    /\ w_stop_event' = TRUE
    /\ UNCHANGED <<w_task_type, w_queue, w_pc, w_current, w_added,
                   w_dispatched, w_history>>
    /\ UNCHANGED wOthers

\* line 81: while self.running is false, the loop ends (line 155)
LoopEnds ==
    /\ w_pc = "top"
    /\ ~w_running
    /\ w_pc' = "exited"
    /\ UNCHANGED <<w_task_type, w_running, w_stop_event, w_queue,
                   w_current, w_added, w_dispatched, w_history>>
    /\ UNCHANGED wOthers

\* lines 86-99: the queue is empty; the refill of the loop's type runs
\* and puts the rows it found (none or one here); still empty: sleep
EmptyQueue ==
    /\ w_pc = "top"
    /\ w_running
    /\ w_queue = <<>>
    /\ \/ /\ w_added < MaxAdded
          /\ w_added' = w_added + 1
          /\ w_queue' = <<TaskData(w_added + 1, TRUE)>>
          /\ w_pc' = "top"
       \/ /\ UNCHANGED <<w_added, w_queue>>
          /\ w_pc' = "sleeping"
    /\ UNCHANGED <<w_task_type, w_running, w_stop_event, w_current,
                   w_dispatched, w_history>>
    /\ UNCHANGED wOthers

\* lines 96-99: asyncio.sleep(5) and _cleanup_stuck_posts are over; continue
SleepOver ==
    /\ w_pc = "sleeping"
    /\ w_pc' = "top"
    /\ UNCHANGED <<w_task_type, w_running, w_stop_event, w_queue,
                   w_current, w_added, w_dispatched, w_history>>
    /\ UNCHANGED wOthers

\* the loop without its except at line 141: a raising handler ends it
AfterTaskMut(result) ==
    IF result = "raised" \/ w_stop_event THEN "exited" ELSE "top"

\* lines 141-153 then 81: where the loop goes once a task is finished,
\* whatever its handler did
AfterTask(result) == IF w_stop_event THEN "exited" ELSE "top"

\* the handler reads its keys before its own try (286-287, 314-317) or
\* inside the loop's try (110): a missing key raises out of the handler
RaisesOnEntry(task) == ~task.has_keys

\* lines 101-110: queue.get() and the dispatch on the loop's type.  A
\* task without its keys raises at once: caught at 141, task_done at 144
Dequeue ==
    /\ w_pc = "top"
    /\ w_running
    /\ w_queue # <<>>
    /\ LET task == Head(w_queue)
       IN  /\ w_queue' = Tail(w_queue)
           /\ IF RaisesOnEntry(task)
              THEN /\ w_dispatched' = Append(w_dispatched,
                          [id |-> task.id, result |-> "raised"])
                   /\ w_current' = <<>>
                   /\ w_pc' = AfterTask("raised")
              ELSE /\ w_dispatched' = Append(w_dispatched,
                          [id |-> task.id, result |-> "running"])
                   /\ w_current' = <<task>>
                   /\ w_pc' = "handling"
    /\ UNCHANGED <<w_task_type, w_running, w_stop_event, w_added, w_history>>
    /\ UNCHANGED wOthers

\* lines 300-305: self.history.appendleft(...)
AppendLeft(history, entry) ==
    LET all == <<entry>> \o history
    IN  IF Len(all) > HistoryMaxLen THEN SubSeq(all, 1, HistoryMaxLen) ELSE all

\* the history after the handler's awaited call ended with outcome:
\* only _process_media_download writes it, and only when process_post
\* returned (298-305); its except (307-308) only logs
HistoryAfter(task, outcome) ==
    IF w_task_type = "media_download" /\ outcome # "raises"
    THEN AppendLeft(w_history,
             [post_id |-> task.id, success |-> (outcome = "true")])
    ELSE w_history

\* what the loop's try (104-144) sees of the handler.  "true": the
\* awaited calls succeeded; "false": process_post returned False, no
\* comments came back (382-391), or the metadata fetch failed and the
\* subreddit was set to "error" (129-135); "raises": an awaited call
\* raised.  The media and the comment handlers log it and return
\* (307-308, 393-394); in the inline metadata handler it is the status
\* update of the except branch that raised, and it reaches line 141
ResultOf(outcome) ==
    IF outcome = "raises"
    THEN IF w_task_type = "metadata_fetch" THEN "raised" ELSE "swallowed"
    ELSE IF outcome = "true" THEN "ok" ELSE "failed"

\* the handler's awaited call ends; lines 137-153
HandlerEnds(outcome) ==
    /\ w_pc = "handling"
    /\ LET task == w_current[1]
       IN  /\ w_history' = HistoryAfter(task, outcome)
           /\ w_dispatched' = [w_dispatched EXCEPT ![Len(w_dispatched)] =
                  [id |-> task.id, result |-> ResultOf(outcome)]]
    /\ w_current' = <<>>
    /\ w_pc' = AfterTask(ResultOf(outcome))
    /\ UNCHANGED <<w_task_type, w_running, w_stop_event, w_queue, w_added>>
    /\ UNCHANGED wOthers

WNext ==
    \/ \E has_keys \in BOOLEAN : AddTask(has_keys)
    \/ StopRequested
    \/ LoopEnds
    \/ EmptyQueue
    \/ SleepOver
    \/ Dequeue
    \/ \E outcome \in CallOutcomes : HandlerEnds(outcome)

WStart == WInit /\ RLIdle /\ DLIdle /\ QIdle /\ SchIdle /\ DBIdle /\ TXIdle /\ CMIdle /\ RFIdle /\ SWIdle /\ CRIdle /\ PLIdle /\ TPIdle

WSpec == WStart /\ [][WNext]_vars

\* the loop is a scheduled asyncio task: each of its steps is taken once
\* it can be, and the awaited calls of a handler come to an end
WFair ==
    /\ WF_vars(LoopEnds)
    /\ WF_vars(EmptyQueue)
    /\ WF_vars(SleepOver)
    /\ WF_vars(Dequeue)
    /\ WF_vars(\E outcome \in CallOutcomes : HandlerEnds(outcome))

WLive == WStart /\ [][WNext]_vars /\ WFair

InQueue(i) == \E k \in DOMAIN w_queue : w_queue[k].id = i

Dispatched(i) == \E k \in DOMAIN w_dispatched : w_dispatched[k].id = i

\* a handler raised, out to the loop or into its own except
HandlerRaised(k) == w_dispatched[k].result \in {"raised", "swallowed"}

\* C11: once the handler of a dequeued task has raised, every task in
\* the queue, put before or after the failure, is eventually dequeued
\* and dispatched unless the queue is stopped
C11_FailingTaskDoesNotStopLoop ==
    \A i \in 1..MaxAdded :
        (InQueue(i) /\ \E k \in DOMAIN w_dispatched : HandlerRaised(k))
            ~> (Dispatched(i) \/ ~w_running)

\* a task is dispatched after one whose handler raised out to the loop,
\* the queue still started
C11_Witness ==
    /\ w_running
    /\ \E k \in DOMAIN w_dispatched :
          /\ w_dispatched[k].result = "raised"
          /\ k < Len(w_dispatched)

HistoryEntriesOf(i) == {h \in DOMAIN w_history : w_history[h].post_id = i}

\* C18: every dispatched task whose handler is over has exactly one
\* history entry, and that entry is marked failed when the handler raised
C18_OneHistoryEntryPerTask ==
    \A k \in DOMAIN w_dispatched :
        w_dispatched[k].result # "running" =>
            /\ Cardinality(HistoryEntriesOf(w_dispatched[k].id)) = 1
            /\ HandlerRaised(k) =>
                  \A h \in HistoryEntriesOf(w_dispatched[k].id) :
                      ~w_history[h].success

\* ---------------------------------------------------------------------
\* Write paths of the pipeline and the pool's write mutex
\* src/app/database/pool.py (17-90, 186-197, 268-356, 358-380),
\* src/app/downloader/__init__.py (399-457),
\* src/app/services/task_queues.py (110-135, 312-394)
\* ---------------------------------------------------------------------

\* DatabasePool(max_connections = 5)
MaxConnections == 5

\* the three queue workers started by the application, one asyncio task each
Workers == {"media", "comment", "metadata"}

\* the write paths a worker goes through for one task, in order
Program(w) ==
    CASE w = "media"    -> <<"process_post", "mark_post_downloaded">>
      [] w = "comment"  -> <<"comment_fetch">>
      [] w = "metadata" -> <<"save_posts", "update_subreddit_status">>

\* the paths written as 'async with self._write_lock:' around
\* 'async with self.connection()'; process_post and
\* _process_comment_fetch open db_pool.connection() on their own
HoldsWriteLock(path) ==
    path \in {"mark_post_downloaded", "save_posts", "update_subreddit_status"}

PathOf(w) == Program(w)[tx_step[w]]

NextStep(w) == IF tx_step[w] = Len(Program(w)) THEN 1 ELSE tx_step[w] + 1

TXInit ==
    /\ tx_pc = [w \in Workers |-> "idle"]
    /\ tx_step = [w \in Workers |-> 1]
    /\ tx_write_lock = ""
    /\ tx_waiters = <<>>
    /\ tx_pool = MaxConnections
    /\ tx_db_writer = ""
    /\ tx_last = [w \in Workers |-> ""]

\* a worker reaches a write path: it takes the mutex when the path
\* asks for it (or queues behind its holder), takes a connection
\* (pool.py 74) and sends its first statement to the store
Enter(w) ==
    /\ tx_pc[w] = "idle"
    /\ IF HoldsWriteLock(PathOf(w)) /\ tx_write_lock # ""
       THEN /\ tx_waiters' = Append(tx_waiters, w)
            /\ tx_pc' = [tx_pc EXCEPT ![w] = "waiting"]
            /\ UNCHANGED <<tx_write_lock, tx_pool>>
       ELSE /\ tx_pool > 0
            /\ tx_pool' = tx_pool - 1
            /\ tx_write_lock' =
                  IF HoldsWriteLock(PathOf(w)) THEN w ELSE tx_write_lock
            /\ tx_pc' = [tx_pc EXCEPT ![w] = "executing"]
            /\ UNCHANGED tx_waiters
    /\ UNCHANGED <<tx_step, tx_db_writer, tx_last>>
    /\ UNCHANGED txOthers

\* asyncio.Lock hands the mutex to its oldest waiter, which goes on
Granted(w) ==
    /\ tx_pc[w] = "waiting"
    /\ tx_write_lock = w
    /\ tx_pool > 0
    /\ tx_pool' = tx_pool - 1
    /\ tx_pc' = [tx_pc EXCEPT ![w] = "executing"]
    /\ UNCHANGED <<tx_step, tx_write_lock, tx_waiters, tx_db_writer, tx_last>>
    /\ UNCHANGED txOthers

\* the first statement of the path (an INSERT or UPDATE under the
\* implicit BEGIN, or BEGIN IMMEDIATE) takes the store's write lock:
\* the worker's write transaction is open
StatementRuns(w) ==
    /\ tx_pc[w] = "executing"
    /\ tx_db_writer = ""
    /\ tx_db_writer' = w
    /\ tx_pc' = [tx_pc EXCEPT ![w] = "in_tx"]
    /\ UNCHANGED <<tx_step, tx_write_lock, tx_waiters, tx_pool, tx_last>>
    /\ UNCHANGED txOthers

\* leaving 'async with self._write_lock' (if entered) and
\* 'async with self.connection()' (pool.py 76-90)
Leave(w, how) ==
    /\ tx_pool' = tx_pool + 1
    /\ IF tx_write_lock = w
       THEN IF tx_waiters = <<>>
            THEN /\ tx_write_lock' = ""
                 /\ UNCHANGED tx_waiters
            ELSE /\ tx_write_lock' = Head(tx_waiters)
                 /\ tx_waiters' = Tail(tx_waiters)
       ELSE UNCHANGED <<tx_write_lock, tx_waiters>>
    /\ tx_pc' = [tx_pc EXCEPT ![w] = "idle"]
    /\ tx_step' = [tx_step EXCEPT ![w] = NextStep(w)]
    /\ tx_last' = [tx_last EXCEPT ![w] = how]

\* another connection holds the store's write lock for longer than
\* busy_timeout (pool.py 38): the statement raises 'database is locked'
BusyTimeout(w) ==
    /\ tx_pc[w] = "executing"
    /\ tx_db_writer \notin {"", w}
    /\ Leave(w, "locked")
    /\ UNCHANGED tx_db_writer
    /\ UNCHANGED txOthers

\* the path's remaining statements ran and it commits, or one of them
\* raised and it rolls back; the store's write lock is free again
EndTransaction(w, how) ==
    /\ tx_pc[w] = "in_tx"
    /\ tx_db_writer' = ""
    /\ Leave(w, how)
    /\ UNCHANGED txOthers

TXNext ==
    \E w \in Workers :
        \/ Enter(w)
        \/ Granted(w)
        \/ StatementRuns(w)
        \/ BusyTimeout(w)
        \/ \E how \in {"committed", "rolled_back"} : EndTransaction(w, how)

TXStart == TXInit /\ RLIdle /\ DLIdle /\ QIdle /\ SchIdle /\ DBIdle /\ WIdle /\ CMIdle /\ RFIdle /\ SWIdle /\ CRIdle /\ PLIdle /\ TPIdle

TXSpec == TXStart /\ [][TXNext]_vars

\* C12: a worker whose write transaction is open holds the pool's
\* write mutex, so that no two write transactions are open at once
C12_WritersHoldMutex ==
    \A w \in Workers : tx_pc[w] = "in_tx" => tx_write_lock = w

\* ---------------------------------------------------------------------
\* Writing a fetched comment thread
\* src/app/services/task_queues.py, _process_comment_fetch (312-394)
\* src/app/database/pool.py, save_comments (479-567)
\* ---------------------------------------------------------------------

\* comment fetches for the post over one run
MaxFetches == 2

CommentIds == {"c1", "c2"}

\* a fetched comment; insert_fails: its INSERT OR REPLACE raises (a
\* column the table lacks, path NULL, a missing 'id' key, a locked store)
Comment(id, insert_fails) == [id |-> id, insert_fails |-> insert_fails]

Comments == {Comment(id, f) : id \in CommentIds, f \in BOOLEAN}

\* what get_post_comments returns: nothing, one comment or two
Batches ==
    {<<>>} \cup {<<c>> : c \in Comments}
           \cup {<<c, d>> : c \in Comments, d \in Comments}

\* the post's row, the columns the handler writes
PostRow == [last_comment_update |-> 0, comment_fetch_attempts |-> 0,
            comment_count |-> 0, last_comment_failure |-> FALSE]

CMInit ==
    /\ cm_db = [post |-> PostRow, comments |-> {}]
    /\ cm_work = [post |-> PostRow, comments |-> {}]
    /\ cm_via = "_process_comment_fetch"
    /\ cm_pc = "idle"
    /\ cm_batch = <<>>
    /\ cm_k = 0
    /\ cm_fetch = 0
    /\ cm_before = [post |-> PostRow, comments |-> {}]
    /\ cm_outcomes = <<>>

Writers == {"_process_comment_fetch", "save_comments"}

\* lines 320-324: the comments came back; BEGIN IMMEDIATE on a
\* connection of the pool, or nothing came back (382-391).
\* save_comments (pool.py 496) begins whatever the list holds
BeginFetch(via, comments) ==
    /\ cm_pc = "idle"
    /\ cm_fetch < MaxFetches
    /\ cm_fetch' = cm_fetch + 1
    /\ cm_via' = via
    /\ cm_batch' = comments
    /\ cm_before' = cm_db
    /\ cm_work' = cm_db
    /\ cm_k' = 1
    /\ cm_pc' = IF comments = <<>> /\ via = "_process_comment_fetch"
                THEN "no_comments" ELSE "update_post"
    /\ UNCHANGED <<cm_db, cm_outcomes>>
    /\ UNCHANGED cmOthers

\* lines 327-334: UPDATE posts SET last_comment_update, attempts + 1,
\* comment_count, last_comment_failure = NULL; it may raise as well.
\* save_comments (pool.py 500-506) sets the time and the count only
UpdatePost(raises) ==
    /\ cm_pc = "update_post"
    /\ IF raises
       THEN /\ cm_pc' = "except"
            /\ UNCHANGED cm_work
       ELSE /\ cm_work' = [cm_work EXCEPT !.post =
                  IF cm_via = "save_comments"
                  THEN [@ EXCEPT !.last_comment_update = cm_fetch,
                                 !.comment_count = Len(cm_batch)]
                  ELSE [last_comment_update |-> cm_fetch,
                        comment_fetch_attempts |-> @.comment_fetch_attempts + 1,
                        comment_count |-> Len(cm_batch),
                        last_comment_failure |-> FALSE]]
            /\ cm_pc' = "insert"
    /\ UNCHANGED <<cm_db, cm_via, cm_batch, cm_k, cm_fetch, cm_before,
                   cm_outcomes>>
    /\ UNCHANGED cmOthers

\* INSERT OR REPLACE INTO comments: the row of that id is replaced
InsertOrReplace(comments, id, fetch) ==
    {c \in comments : c.id # id} \cup {[id |-> id, fetch |-> fetch]}

\* the statement raises: the comment's own failure, or the plain INSERT
\* of save_comments (pool.py 520-539) meeting its id in the table
InsertRaises(comments, comment) ==
    \/ comment.insert_fails
    \/ /\ cm_via = "save_comments"
       /\ \E c \in comments : c.id = comment.id

\* lines 337-366: one turn of the loop over the batch
InsertComment ==
    /\ cm_pc = "insert"
    /\ cm_k <= Len(cm_batch)
    /\ IF InsertRaises(cm_work.comments, cm_batch[cm_k])
       THEN /\ cm_pc' = "except"
            /\ UNCHANGED <<cm_work, cm_k>>
       ELSE /\ cm_work' = [cm_work EXCEPT !.comments =
                  InsertOrReplace(@, cm_batch[cm_k].id, cm_fetch)]
            /\ cm_k' = cm_k + 1
            /\ UNCHANGED cm_pc
    /\ UNCHANGED <<cm_db, cm_via, cm_batch, cm_fetch, cm_before, cm_outcomes>>
    /\ UNCHANGED cmOthers

\* line 368: await db.commit()
Commit ==
    /\ cm_pc = "insert"
    /\ cm_k > Len(cm_batch)
    /\ cm_db' = cm_work
    /\ cm_pc' = "idle"
    /\ cm_outcomes' = Append(cm_outcomes, "saved")
    /\ UNCHANGED <<cm_work, cm_via, cm_batch, cm_k, cm_fetch, cm_before>>
    /\ UNCHANGED cmOthers

\* a rollback that forgets nothing
RollbackMut(committed, work) == work

\* line 372: await db.rollback(): the connection sees the committed store
Rollback(committed, work) == committed

\* lines 371-372 (pool.py 559-560): the except branch rolls back
ExceptRollsBack ==
    /\ cm_pc = "except"
    /\ cm_work' = Rollback(cm_db, cm_work)
    /\ cm_pc' = "record_failure"
    /\ UNCHANGED <<cm_db, cm_via, cm_batch, cm_k, cm_fetch, cm_before,
                   cm_outcomes>>
    /\ UNCHANGED cmOthers

\* lines 373-380: UPDATE posts SET last_comment_failure, commit, raise
\* (logged at 393-394).  save_comments only raises (pool.py 561-562)
\* and connection() commits what the connection holds (pool.py 82-90)
RecordFailure ==
    /\ cm_pc = "record_failure"
    /\ cm_db' = IF cm_via = "save_comments" THEN cm_work
                ELSE [cm_work EXCEPT !.post.last_comment_failure = TRUE]
    /\ cm_work' = cm_db'
    /\ cm_pc' = "idle"
    /\ cm_outcomes' = Append(cm_outcomes, "failed")
    /\ UNCHANGED <<cm_via, cm_batch, cm_k, cm_fetch, cm_before>>
    /\ UNCHANGED cmOthers

\* lines 382-391: no comments; attempts + 1 and last_comment_update, commit
NoComments ==
    /\ cm_pc = "no_comments"
    /\ cm_db' = [cm_db EXCEPT !.post.comment_fetch_attempts = @ + 1,
                              !.post.last_comment_update = cm_fetch]
    /\ cm_work' = cm_db'
    /\ cm_pc' = "idle"
    /\ cm_outcomes' = Append(cm_outcomes, "empty")
    /\ UNCHANGED <<cm_via, cm_batch, cm_k, cm_fetch, cm_before>>
    /\ UNCHANGED cmOthers

CMNext ==
    \/ \E via \in Writers, comments \in Batches : BeginFetch(via, comments)
    \/ \E raises \in BOOLEAN : UpdatePost(raises)
    \/ InsertComment
    \/ Commit
    \/ ExceptRollsBack
    \/ RecordFailure
    \/ NoComments

CMStart == CMInit /\ RLIdle /\ DLIdle /\ QIdle /\ SchIdle /\ DBIdle /\ WIdle /\ TXIdle /\ RFIdle /\ SWIdle /\ CRIdle /\ PLIdle /\ TPIdle

CMSpec == CMStart /\ [][CMNext]_vars

\* the committed store holds nothing of the current fetch
NothingPersisted ==
    /\ cm_db.comments = cm_before.comments
    /\ cm_db.post.comment_count = cm_before.post.comment_count
    /\ cm_db.post.comment_fetch_attempts = cm_before.post.comment_fetch_attempts
    /\ cm_db.post.last_comment_update = cm_before.post.last_comment_update

LastFetchFailed ==
    /\ cm_pc = "idle"
    /\ cm_outcomes # <<>>
    /\ cm_outcomes[Len(cm_outcomes)] = "failed"

\* C13: while a thread is being written, and after its writing failed at
\* any insert, the committed store holds none of the batch's comments
\* and none of its post-row updates
C13_AtomicThread ==
    (cm_pc \in {"update_post", "insert", "except", "record_failure"}
        \/ LastFetchFailed) => NothingPersisted

\* the second insert of a batch failed after the first was executed,
\* over a store that holds an earlier thread
C13_Witness ==
    /\ LastFetchFailed
    /\ cm_k = 2
    /\ Len(cm_batch) = 2
    /\ cm_before.comments # {}
    /\ cm_via = "_process_comment_fetch"
    /\ cm_db.post.last_comment_failure

(***************************************************************************)
(* REPLENISHMENT OF THE MEDIA BACKLOG                                      *)
(* (app/services/download_queue.py lines 57-157 and 204-253, the loop of   *)
(*  DownloadQueue; app/services/task_queues.py lines 265-280 and           *)
(*  app/database/pool.py lines 382-451, the refill of the media TaskQueue) *)
(*                                                                         *)
(* Three posts, r1 and r2 of subreddit A and r3 of subreddit B.  A post    *)
(* is either an image post with a post_media row that has a url, or a text *)
(* post with no post_media row.                                            *)
(***************************************************************************)
MaxChanges == 1

RfPostIds == {"r1", "r2", "r3"}
SubOf(p) == IF p = "r3" THEN "B" ELSE "A"
CreatedUtc(p) == CASE p = "r1" -> 1 [] p = "r2" -> 2 [] OTHER -> 3
RfScores == {1, 2}
PostTypes == {"image", "text"}
BatchSizes == {1, 2}

\* limit=50 in _add_pending_media_tasks (task_queues.py line 276)
PendingLimit == 50

NoRefill == [by |-> "none", name |-> "none", posts |-> <<>>, at_start |-> 0,
             eligible |-> {}, changes |-> 0]

RFInit ==
    /\ rf_posts \in [RfPostIds -> [score : RfScores, post_type : PostTypes,
                                   downloaded : {0, 1}, error : {FALSE}]]
    /\ rf_status \in [Subs -> {"ready", "indexing"}]
    /\ rf_batch_size \in BatchSizes
    /\ rf_changes = 0
    /\ rf_dq = [pc |-> "load", batch_size |-> 50, at_start |-> 0, queue |-> <<>>]
    /\ rf_tq = [queue |-> <<>>]
    /\ rf_last = NoRefill

\* EXISTS (SELECT 1 FROM post_media WHERE post_id = p.id AND media_url IS NOT NULL)
HasMediaUrl(p) == rf_posts[p].post_type = "image"

\* the WHERE clause of the batch query (download_queue.py lines 119-129,
\* pool.py lines 394-402), without the subreddit
EligiblePost(p) ==
    /\ rf_posts[p].downloaded = 0
    /\ ~rf_posts[p].error
    /\ (HasMediaUrl(p) \/ rf_posts[p].post_type \in {"image", "video", "gallery"})

EligibleIn(s) == {p \in RfPostIds : SubOf(p) = s /\ EligiblePost(p)}

\* subreddit_stats (download_queue.py lines 74-91)
TotalPosts(s) == Cardinality({p \in RfPostIds : SubOf(p) = s})
DistinctDownloaded(s) ==
    IF \E p \in RfPostIds : SubOf(p) = s /\ rf_posts[p].downloaded = 1 THEN 1 ELSE 0
InSubredditStats(s) ==
    /\ rf_status[s] = "ready"
    /\ \E p \in RfPostIds :
          SubOf(p) = s /\ rf_posts[p].downloaded = 0 /\ ~rf_posts[p].error

\* ORDER BY percent_complete ASC, total_posts DESC
StatsBefore(a, b) ==
    LET pa == PercentComplete(DistinctDownloaded(a), TotalPosts(a))
        pb == PercentComplete(DistinctDownloaded(b), TotalPosts(b))
    IN  pa < pb \/ (pa = pb /\ TotalPosts(a) > TotalPosts(b))

\* LIMIT 1
SelectedSubreddits ==
    {s \in Subs : /\ InSubredditStats(s)
                  /\ \A o \in Subs : InSubredditStats(o) => ~StatsBefore(o, s)}

Min2(a, b) == IF a < b THEN a ELSE b

\* ORDER BY p.score DESC (download_queue.py line 131)
ByScore(a, b) == rf_posts[a].score > rf_posts[b].score

\* ORDER BY p.score DESC, p.created_utc DESC (pool.py line 412)
ByScoreThenCreated(a, b) ==
    \/ rf_posts[a].score > rf_posts[b].score
    \/ rf_posts[a].score = rf_posts[b].score /\ CreatedUtc(a) > CreatedUtc(b)

RowBefore(order, a, b) ==
    IF order = "score" THEN ByScore(a, b) ELSE ByScoreThenCreated(a, b)

\* the sequences GROUP BY p.id ORDER BY ... LIMIT n can return over the
\* rows S: n rows, or all of them, none twice, none after a row it is
\* ordered before, and none left out that is ordered before a returned one
Ordered(S, n, order) ==
    {q \in UNION {[1..k -> S] : k \in {Min2(n, Cardinality(S))}} :
        /\ \A i, j \in DOMAIN q : i < j => (q[i] # q[j] /\ ~RowBefore(order, q[j], q[i]))
        /\ \A p \in S : (\A i \in DOMAIN q : q[i] # p) =>
              \A i \in DOMAIN q : ~RowBefore(order, p, q[i])}

\* DatabasePool.get_pending_downloads(subreddit, limit)
GetPendingDownloads(s, limit) == Ordered(EligibleIn(s), limit, "score, created_utc")

\* the operator changes the persisted batch_size
SetBatchSize(n) ==
    /\ rf_changes < MaxChanges
    /\ n # rf_batch_size
    /\ rf_batch_size' = n
    /\ rf_changes' = rf_changes + 1
    /\ UNCHANGED <<rf_posts, rf_status, rf_dq, rf_tq, rf_last>>
    /\ UNCHANGED rfOthers

\* DownloadQueue.load_config, lines 57-68, at the top of an iteration of
\* _process_queue (line 210)
LoadConfig ==
    /\ rf_dq.pc = "load"
    /\ rf_dq' = [rf_dq EXCEPT !.pc = "wait", !.batch_size = rf_batch_size,
                              !.at_start = rf_batch_size]
    /\ UNCHANGED <<rf_posts, rf_status, rf_batch_size, rf_changes, rf_tq, rf_last>>
    /\ UNCHANGED rfOthers

\* what processing a post leaves in its row (mark_post_downloaded)
Marked(p, success) ==
    [rf_posts EXCEPT ![p] = IF success THEN [@ EXCEPT !.downloaded = 1, !.error = FALSE]
                                       ELSE [@ EXCEPT !.downloaded = 0, !.error = TRUE]]

\* _process_queue, lines 212-241: queue.get() returns a post, which is
\* processed
ProcessQueued ==
    /\ rf_dq.pc = "wait"
    /\ rf_dq.queue # <<>>
    /\ \E success \in BOOLEAN : rf_posts' = Marked(Head(rf_dq.queue), success)
    /\ rf_dq' = [rf_dq EXCEPT !.pc = "load", !.queue = Tail(@)]
    /\ UNCHANGED <<rf_status, rf_batch_size, rf_changes, rf_tq, rf_last>>
    /\ UNCHANGED rfOthers

\* _process_queue, lines 245-252: queue.get() times out; get_next_batch
\* (lines 70-155) and add_posts (lines 159-173), or the sleep
QueueTimeout ==
    /\ rf_dq.pc = "wait"
    /\ rf_dq.queue = <<>>
    /\ \/ /\ \A s \in SelectedSubreddits : EligibleIn(s) = {}
          /\ rf_dq' = [rf_dq EXCEPT !.pc = "sleep"]
          /\ UNCHANGED rf_last
       \/ \E s \in SelectedSubreddits :
             /\ EligibleIn(s) # {}
             /\ \E new_posts \in Ordered(EligibleIn(s), rf_dq.batch_size, "score") :
                   /\ rf_dq' = [rf_dq EXCEPT !.pc = "load", !.queue = new_posts]
                   /\ rf_last' = [by |-> "get_next_batch", name |-> s,
                                  posts |-> new_posts, at_start |-> rf_dq.at_start,
                                  eligible |-> EligibleIn(s), changes |-> rf_changes]
    /\ UNCHANGED <<rf_posts, rf_status, rf_batch_size, rf_changes, rf_tq>>
    /\ UNCHANGED rfOthers

\* _process_queue, line 252: asyncio.sleep(self.batch_delay) returns
BatchDelayOver ==
    /\ rf_dq.pc = "sleep"
    /\ rf_dq' = [rf_dq EXCEPT !.pc = "load"]
    /\ UNCHANGED <<rf_posts, rf_status, rf_batch_size, rf_changes, rf_tq, rf_last>>
    /\ UNCHANGED rfOthers

\* TaskQueue._process_queue on an empty queue (task_queues.py lines 86-90):
\* _add_pending_media_tasks, lines 265-280
RefillPending ==
    /\ rf_tq.queue = <<>>
    /\ \E s \in Subs :
          /\ rf_status[s] = "ready"
          /\ EligibleIn(s) # {}
          /\ \E pending \in GetPendingDownloads(s, PendingLimit) :
                /\ rf_tq' = [rf_tq EXCEPT !.queue = pending]
                /\ rf_last' = [by |-> "_add_pending_media_tasks", name |-> s,
                               posts |-> pending, at_start |-> rf_batch_size,
                               eligible |-> EligibleIn(s), changes |-> rf_changes]
    /\ UNCHANGED <<rf_posts, rf_status, rf_batch_size, rf_changes, rf_dq>>
    /\ UNCHANGED rfOthers

\* TaskQueue._process_queue, lines 96-140, for a media task
ProcessPending ==
    /\ rf_tq.queue # <<>>
    /\ \E success \in BOOLEAN : rf_posts' = Marked(Head(rf_tq.queue), success)
    /\ rf_tq' = [rf_tq EXCEPT !.queue = Tail(@)]
    /\ UNCHANGED <<rf_status, rf_batch_size, rf_changes, rf_dq, rf_last>>
    /\ UNCHANGED rfOthers

DQNext ==
    \/ LoadConfig
    \/ ProcessQueued
    \/ QueueTimeout
    \/ BatchDelayOver

RFNext ==
    \/ \E n \in BatchSizes : SetBatchSize(n)
    \/ LoadConfig
    \/ ProcessQueued
    \/ QueueTimeout
    \/ BatchDelayOver
    \/ RefillPending
    \/ ProcessPending

RFStart == RFInit /\ RLIdle /\ DLIdle /\ QIdle /\ SchIdle /\ DBIdle /\ WIdle /\ TXIdle /\ CMIdle /\ SWIdle /\ CRIdle /\ PLIdle /\ TPIdle

RFSpec == RFStart /\ [][RFNext]_vars

\* the scheduling loops keep running: every step of a loop that stays
\* possible is eventually taken
RFLive ==
    /\ RFSpec
    /\ WF_vars(LoadConfig) /\ WF_vars(ProcessQueued) /\ WF_vars(QueueTimeout)
    /\ WF_vars(BatchDelayOver) /\ WF_vars(RefillPending) /\ WF_vars(ProcessPending)

\* the loop of DownloadQueue alone, kept running
DQLive ==
    /\ RFStart
    /\ [][DQNext]_vars
    /\ WF_vars(LoadConfig) /\ WF_vars(ProcessQueued) /\ WF_vars(QueueTimeout)
    /\ WF_vars(BatchDelayOver)

\* C27: one replenishment enqueues posts of the chosen subreddit only, at
\* most batch_size of them (the persisted batch_size the scheduling loop
\* had to read at the start of the iteration), in descending score order,
\* and every enqueued post had downloaded = 0, error NULL and a media row
\* with a url or a media post type when it was chosen.
C27_BoundedOrderedBatch ==
    rf_last.by # "none" =>
       /\ Len(rf_last.posts) <= rf_last.at_start
       /\ \A i, j \in DOMAIN rf_last.posts :
             i < j => rf_posts[rf_last.posts[i]].score >= rf_posts[rf_last.posts[j]].score
       /\ \A i \in DOMAIN rf_last.posts :
             /\ rf_last.posts[i] \in rf_last.eligible
             /\ SubOf(rf_last.posts[i]) = rf_last.name

\* C28: no ready subreddit is starved. While the loop of DownloadQueue
\* keeps running, a ready subreddit that has a post with downloaded = 0,
\* error NULL and discoverable media eventually has one of its posts in
\* the queue, whatever the other subreddit holds.
C28_NoStarvation ==
    \A s \in Subs :
       (rf_status[s] = "ready" /\ EligibleIn(s) # {})
       ~> (\E i \in DOMAIN rf_dq.queue : SubOf(rf_dq.queue[i]) = s)

\* C29: the scheduling loop re-reads batch_size from the persisted
\* configuration on every iteration: a replenishment that follows a change
\* of the persisted batch_size by the operator bounds its batch by the
\* persisted value its iteration began with, so it enqueues that many
\* posts of the chosen subreddit, or all the eligible ones when there are
\* fewer.
C29_FreshBatchSize ==
    (rf_last.by # "none" /\ rf_last.changes > 0) =>
       Len(rf_last.posts) = Min2(rf_last.at_start, Cardinality(rf_last.eligible))

\* the dispatched tasks whose handler is over, oldest first
FinishedTasks == SelectSeq(w_dispatched, LAMBDA d : d.result # "running")

\* C30: the history of a queue never holds more than 1000 entries, and
\* after any number of processed tasks it holds exactly the outcomes of
\* the most recent ones, newest first: one entry per finished task, up to
\* the capacity, the oldest being the ones dropped.
C30_RecentOutcomes ==
    LET n == Min2(Len(FinishedTasks), HistoryMaxLen)
    IN  /\ Len(w_history) <= HistoryMaxLen
        /\ Len(w_history) = n
        /\ \A i \in 1..n :
              LET d == FinishedTasks[Len(FinishedTasks) + 1 - i]
              IN  /\ i \in DOMAIN w_history
                  /\ w_history[i].post_id = d.id
                  /\ w_history[i].success = (d.result = "ok")

(***************************************************************************)
(* THE SWEEP OF STUCK POSTS                                                *)
(* (app/services/task_queues.py lines 181-206, run by the loop of every    *)
(*  TaskQueue when its queue is empty, lines 95-99; beside it the media    *)
(*  worker, which ends process_post with mark_post_downloaded, pool.py     *)
(*  lines 358-380)                                                         *)
(*                                                                         *)
(* last_status_check is "old" when it is below time.time() - 86400 and     *)
(* "recent" otherwise.                                                     *)
(***************************************************************************)
MaxMarks == 2

SwPostIds == {"s1", "s2"}
MsgStuck == <<"Download", "timeout", "-", "post", "stuck", "in", "pending", "state">>
SwErrors == {NoError, MsgSomeFailed}

SWInit ==
    /\ sw_posts \in [SwPostIds ->
          {r \in [media_status : {"pending", "downloaded", "error"},
                  error : SwErrors, downloaded : {0, 1},
                  last_status_check : {"old", "recent"}] :
              /\ (r.media_status = "downloaded") = (r.downloaded = 1)
              /\ (r.downloaded = 1) => (r.error = NoError)
              /\ (r.media_status = "error") => (r.error # NoError)}]
    /\ sw_sweep = [pc |-> "idle", stuck_posts |-> {}]
    /\ sw_marks = 0

\* WHERE media_status = 'pending' AND last_status_check < ? AND error IS NULL
Stuck(row) ==
    /\ row.media_status = "pending"
    /\ row.last_status_check = "old"
    /\ row.error = NoError

\* UPDATE posts SET media_status = 'error', error = ..., downloaded = 0 WHERE id = ?
SweptRow(row) ==
    [row EXCEPT !.media_status = "error", !.error = MsgStuck, !.downloaded = 0]

\* _cleanup_stuck_posts, lines 184-192: the SELECT
SelectStuckPosts ==
    /\ sw_sweep.pc = "idle"
    /\ sw_sweep' = [pc |-> "selected",
                    stuck_posts |-> {p \in SwPostIds : Stuck(sw_posts[p])}]
    /\ UNCHANGED <<sw_posts, sw_marks>>
    /\ UNCHANGED swOthers

\* _cleanup_stuck_posts, lines 194-204: one UPDATE per selected row, and
\* the commit
UpdateStuckPosts ==
    /\ sw_sweep.pc = "selected"
    /\ sw_posts' = [p \in SwPostIds |->
                      IF p \in sw_sweep.stuck_posts THEN SweptRow(sw_posts[p])
                                                    ELSE sw_posts[p]]
    /\ sw_sweep' = [pc |-> "idle", stuck_posts |-> {}]
    /\ UNCHANGED sw_marks
    /\ UNCHANGED swOthers

\* the media worker ends process_post on a post that was pending:
\* mark_post_downloaded, pool.py lines 358-380
WorkerMarksPost(p, success) ==
    /\ sw_marks < MaxMarks
    /\ sw_posts[p].downloaded = 0
    /\ sw_posts[p].error = NoError
    /\ sw_marks' = sw_marks + 1
    /\ sw_posts' = [sw_posts EXCEPT ![p] =
                      IF success
                      THEN [@ EXCEPT !.downloaded = 1, !.error = NoError,
                                     !.media_status = "downloaded"]
                      ELSE [@ EXCEPT !.downloaded = 0, !.error = MsgSomeFailed,
                                     !.media_status = "error"]]
    /\ UNCHANGED sw_sweep
    /\ UNCHANGED swOthers

SWNext ==
    \/ SelectStuckPosts
    \/ UpdateStuckPosts
    \/ \E p \in SwPostIds, success \in BOOLEAN : WorkerMarksPost(p, success)

SWStart == SWInit /\ RLIdle /\ DLIdle /\ QIdle /\ SchIdle /\ DBIdle /\ WIdle /\ TXIdle /\ CMIdle /\ RFIdle /\ CRIdle /\ PLIdle /\ TPIdle

SWSpec == SWStart /\ [][SWNext]_vars

\* C31: the sweep changes only posts that have media_status = pending,
\* error NULL and a last status check older than 24 h: when it writes, each
\* such post becomes media_status = error with the timeout message and
\* downloaded = 0, and every other post is left as it was.
C31_SweepFrame ==
    [][(sw_sweep.pc = "selected" /\ sw_sweep'.pc = "idle") =>
          \A p \in SwPostIds :
             sw_posts'[p] = IF Stuck(sw_posts[p]) THEN SweptRow(sw_posts[p])
                                                  ELSE sw_posts[p]]_vars

(***************************************************************************)
(* REPLENISHMENT OF THE COMMENT QUEUE                                      *)
(* (app/services/task_queues.py lines 208-263, _add_pending_comment_tasks, *)
(*  and lines 312-394, _process_comment_fetch)                             *)
(*                                                                         *)
(* Two posts.  stored is the number of comments rows of the post, 0 when   *)
(* the join finds none (c.comment_count IS NULL).                          *)
(***************************************************************************)
\* replenishments of the comment queue over one run
MaxRefills == 2

CrPostIds == {"k1", "k2"}

\* LIMIT 25 of the query
CommentLimit == 25

CRInit ==
    /\ cr_posts \in [CrPostIds -> [score : {1, 2}, comment_count : {0, 2},
                                   stored : {0, 1},
                                   comment_fetch_attempts : 0..3,
                                   error : BOOLEAN,
                                   reddit_status : {"active", "removed"}]]
    /\ cr_queue = <<>>
    /\ cr_last = [posts |-> <<>>, rows |-> cr_posts, n |-> 0]

\* a WHERE clause without the bound on the attempts
NeedsCommentsMut(row) ==
    /\ \/ row.stored = 0
       \/ row.comment_count > row.stored /\ row.comment_count > 0
    /\ ~row.error
    /\ row.reddit_status = "active"

\* the WHERE clause, lines 223-239 (media_status 'missing' is outside the
\* CHECK of the column: that conjunct is true of every row)
NeedsComments(row) ==
    /\ \/ row.stored = 0 /\ row.comment_fetch_attempts = 0
       \/ /\ row.comment_count > row.stored
          /\ row.comment_fetch_attempts < 3
          /\ row.comment_count > 0
       \/ /\ row.stored = 0
          /\ row.comment_count > 0
          /\ row.comment_fetch_attempts < 3
    /\ ~row.error
    /\ row.reddit_status = "active"

\* ORDER BY p.score DESC LIMIT 25 over the rows of the WHERE clause
PendingCommentPosts ==
    LET S == {p \in CrPostIds : NeedsComments(cr_posts[p])}
    IN  {q \in UNION {[1..k -> S] : k \in {Min2(CommentLimit, Cardinality(S))}} :
            /\ \A i, j \in DOMAIN q :
                  i < j => (q[i] # q[j] /\ cr_posts[q[i]].score >= cr_posts[q[j]].score)
            /\ \A p \in S : (\A i \in DOMAIN q : q[i] # p) =>
                  \A i \in DOMAIN q : cr_posts[q[i]].score >= cr_posts[p].score}

\* _add_pending_comment_tasks, called on an empty queue (lines 86-90)
AddPendingCommentTasks ==
    /\ cr_queue = <<>>
    /\ cr_last.n < MaxRefills
    /\ \E tasks \in PendingCommentPosts :
          /\ cr_queue' = tasks
          /\ cr_last' = [posts |-> tasks, rows |-> cr_posts, n |-> cr_last.n + 1]
    /\ UNCHANGED cr_posts
    /\ UNCHANGED crOthers

\* _process_comment_fetch on the head of the queue: the thread was saved
\* (327-369), nothing came back (382-391), or the fetch or the save raised
\* (371-380, 393-394: rolled back, attempts as before)
ProcessCommentFetch(outcome) ==
    /\ cr_queue # <<>>
    /\ LET p == Head(cr_queue)
       IN  cr_posts' = [cr_posts EXCEPT ![p] =
              CASE outcome = "saved" ->
                      [@ EXCEPT !.comment_fetch_attempts = @ + 1,
                                !.comment_count = 1, !.stored = 1]
                [] outcome = "empty" ->
                      [@ EXCEPT !.comment_fetch_attempts = @ + 1]
                [] OTHER -> @]
    /\ cr_queue' = Tail(cr_queue)
    /\ UNCHANGED cr_last
    /\ UNCHANGED crOthers

CRNext ==
    \/ AddPendingCommentTasks
    \/ \E outcome \in {"saved", "empty", "raised"} : ProcessCommentFetch(outcome)

CRStart == CRInit /\ RLIdle /\ DLIdle /\ QIdle /\ SchIdle /\ DBIdle /\ WIdle /\ TXIdle /\ CMIdle /\ RFIdle /\ SWIdle /\ PLIdle /\ TPIdle

CRSpec == CRStart /\ [][CRNext]_vars

\* C32: a comment replenishment never enqueues a post that has 3 or more
\* comment_fetch_attempts; every post it enqueues has never been attempted
\* or has an expected comment count above its stored comment count; and
\* the posts are enqueued in descending score order.
C32_CommentRefill ==
    \A i \in DOMAIN cr_last.posts :
       LET row == cr_last.rows[cr_last.posts[i]]
       IN  /\ row.comment_fetch_attempts < 3
           /\ \/ row.comment_fetch_attempts = 0
              \/ row.comment_count > row.stored
           /\ \A j \in DOMAIN cr_last.posts :
                 i < j => row.score >= cr_last.rows[cr_last.posts[j]].score

\* a refill after earlier fetches put the higher-scored post alone, the
\* other one, with comments missing, having used its three attempts
C32_Witness ==
    /\ cr_last.n > 1
    /\ Len(cr_last.posts) = 1
    /\ \E p \in CrPostIds :
          /\ p # cr_last.posts[1]
          /\ cr_last.rows[p].comment_fetch_attempts = 3
          /\ cr_last.rows[p].comment_count > cr_last.rows[p].stored
          /\ ~cr_last.rows[p].error
          /\ cr_last.rows[p].reddit_status = "active"

\* the post of the comment thread as the replenishment query sees it
CommentPostRow ==
    [stored |-> Cardinality(cm_db.comments),
     comment_count |-> cm_db.post.comment_count,
     comment_fetch_attempts |-> cm_db.post.comment_fetch_attempts,
     error |-> FALSE, reddit_status |-> "active"]

\* C36: every processed comment-fetch task makes progress towards the end
\* of the fetching: when _process_comment_fetch is over, also after a save
\* that failed and was rolled back, the post has more
\* comment_fetch_attempts than before the task or is no longer selected by
\* the replenishment.
C36_FetchMakesProgress ==
    (cm_pc = "idle" /\ cm_outcomes # <<>> /\ cm_via = "_process_comment_fetch")
    => \/ cm_db.post.comment_fetch_attempts > cm_before.post.comment_fetch_attempts
       \/ ~NeedsComments(CommentPostRow)

(***************************************************************************)
(* THE CONNECTION POOL AND THE WRITE MUTEX                                 *)
(* Coroutines of the one event loop take connections from the pool's       *)
(* asyncio.Queue (pool.get() waits while it is empty) and the write mutex  *)
(* (an asyncio.Lock).  The media worker's replenishment holds a connection *)
(* while get_pending_downloads takes a second one; view_subreddit holds a  *)
(* connection while add_subreddit takes the mutex and then a second        *)
(* connection; mark_post_downloaded takes the mutex and then a connection. *)
(***************************************************************************)
NRequests == 5

\* concurrent GET /r/{subreddit} requests
Requests == {<<"view_subreddit", i>> : i \in 1..NRequests}

\* the media worker's loop
MediaWorker == <<"media", 0>>

\* the mutex is free
Unlocked == <<"none", 0>>

Coroutines == Requests \cup {MediaWorker}

PLInit ==
    /\ pl_pc = [c \in Coroutines |-> "idle"]
    /\ pl_free = MaxConnections
    /\ pl_held = [c \in Coroutines |-> 0]
    /\ pl_lock = Unlocked

\* conn = await self.pool.get(): returns once the queue is not empty
PoolGet(c, to) ==
    /\ pl_free > 0
    /\ pl_free' = pl_free - 1
    /\ pl_held' = [pl_held EXCEPT ![c] = @ + 1]
    /\ pl_pc' = [pl_pc EXCEPT ![c] = to]

\* the finally of connection(): commit, then await self.pool.put(conn)
PoolPut(c, n, to) ==
    /\ pl_free' = pl_free + n
    /\ pl_held' = [pl_held EXCEPT ![c] = @ - n]
    /\ pl_pc' = [pl_pc EXCEPT ![c] = to]

\* view_subreddit opens its connection and runs the SELECT on subreddits
ViewSubreddit(r) ==
    /\ pl_pc[r] = "idle"
    /\ PoolGet(r, "checking")
    /\ UNCHANGED pl_lock
    /\ UNCHANGED plOthers

\* the subreddit is archived already: a page is returned, the block is left
ViewKnown(r) ==
    /\ pl_pc[r] = "checking"
    /\ PoolPut(r, 1, "idle")
    /\ UNCHANGED pl_lock
    /\ UNCHANGED plOthers

\* a new subreddit: add_subreddit is awaited inside the connection block
ViewCallsAddSubreddit(r) ==
    /\ pl_pc[r] = "checking"
    /\ pl_pc' = [pl_pc EXCEPT ![r] = "lock"]
    /\ UNCHANGED <<pl_free, pl_held, pl_lock>>
    /\ UNCHANGED plOthers

\* the media worker calls mark_post_downloaded (it holds no connection)
MarkPostDownloadedCalled ==
    /\ pl_pc[MediaWorker] = "idle"
    /\ pl_pc' = [pl_pc EXCEPT ![MediaWorker] = "lock"]
    /\ UNCHANGED <<pl_free, pl_held, pl_lock>>
    /\ UNCHANGED plOthers

\* async with self._write_lock: of add_subreddit and mark_post_downloaded
WriteLockAcquire(c) ==
    /\ pl_pc[c] = "lock"
    /\ pl_lock = Unlocked
    /\ pl_lock' = c
    /\ pl_pc' = [pl_pc EXCEPT ![c] = "conn"]
    /\ UNCHANGED <<pl_free, pl_held>>
    /\ UNCHANGED plOthers

\* async with self.connection() as db: inside the mutex
HelperConnection(c) ==
    /\ pl_pc[c] = "conn"
    /\ PoolGet(c, "write")
    /\ UNCHANGED pl_lock
    /\ UNCHANGED plOthers

\* the helper's statement ran: its connection goes back, the mutex is released
HelperReturns(c) ==
    /\ pl_pc[c] = "write"
    /\ PoolPut(c, 1, IF c = MediaWorker THEN "idle" ELSE "added")
    /\ pl_lock' = Unlocked
    /\ UNCHANGED plOthers

\* view_subreddit queues the metadata task and returns its page
ViewReturns(r) ==
    /\ pl_pc[r] = "added"
    /\ PoolPut(r, 1, "idle")
    /\ UNCHANGED pl_lock
    /\ UNCHANGED plOthers

\* _add_pending_media_tasks opens its connection and selects a subreddit
MediaRefillOpens ==
    /\ pl_pc[MediaWorker] = "idle"
    /\ PoolGet(MediaWorker, "selecting")
    /\ UNCHANGED pl_lock
    /\ UNCHANGED plOthers

\* no subreddit is ready: the block is left
NoReadySubreddit ==
    /\ pl_pc[MediaWorker] = "selecting"
    /\ PoolPut(MediaWorker, 1, "idle")
    /\ UNCHANGED pl_lock
    /\ UNCHANGED plOthers

\* get_pending_downloads is awaited inside the block
CallsGetPendingDownloads ==
    /\ pl_pc[MediaWorker] = "selecting"
    /\ pl_pc' = [pl_pc EXCEPT ![MediaWorker] = "second"]
    /\ UNCHANGED <<pl_free, pl_held, pl_lock>>
    /\ UNCHANGED plOthers

\* get_pending_downloads takes its own connection
GetPendingDownloadsConnection ==
    /\ pl_pc[MediaWorker] = "second"
    /\ PoolGet(MediaWorker, "pending")
    /\ UNCHANGED pl_lock
    /\ UNCHANGED plOthers

\* the rows are queued; both connections go back
MediaTasksAdded ==
    /\ pl_pc[MediaWorker] = "pending"
    /\ PoolPut(MediaWorker, 2, "idle")
    /\ UNCHANGED pl_lock
    /\ UNCHANGED plOthers

PLNext ==
    \/ \E r \in Requests : ViewSubreddit(r)
    \/ \E r \in Requests : ViewKnown(r)
    \/ \E r \in Requests : ViewCallsAddSubreddit(r)
    \/ MarkPostDownloadedCalled
    \/ \E c \in Coroutines : WriteLockAcquire(c)
    \/ \E c \in Coroutines : HelperConnection(c)
    \/ \E c \in Coroutines : HelperReturns(c)
    \/ \E r \in Requests : ViewReturns(r)
    \/ MediaRefillOpens
    \/ NoReadySubreddit
    \/ CallsGetPendingDownloads
    \/ GetPendingDownloadsConnection
    \/ MediaTasksAdded

PLStart == PLInit /\ RLIdle /\ DLIdle /\ QIdle /\ SchIdle /\ DBIdle /\ WIdle /\ TXIdle /\ CMIdle /\ RFIdle /\ SWIdle /\ CRIdle /\ TPIdle

PLSpec == PLStart /\ [][PLNext]_vars

\* a coroutine that cannot take its next step: the pool is empty, or the
\* mutex belongs to another coroutine
Blocked(c) ==
    \/ pl_pc[c] \in {"conn", "second"} /\ pl_free = 0
    \/ pl_pc[c] = "lock" /\ pl_lock \notin {Unlocked, c}

\* C37: no reachable state has every pooled connection held by coroutines
\* that each wait for another connection or for the write mutex.
C37_NoStoreDeadlock ==
    ~(/\ pl_free = 0
      /\ \A c \in Coroutines : pl_held[c] > 0 => Blocked(c))

(***************************************************************************)
(* PROCESS_POST ON A TEXT POST                                             *)
(* (app/downloader/__init__.py lines 317-331 and 479-488,                  *)
(*  app/database/schema.py lines 62-113, app/database/pool.py 67-90)       *)
(*                                                                         *)
(* The store checks every value written to media_status against the CHECK  *)
(* list of the table; a statement that fails the check raises and is       *)
(* rolled back by connection().                                            *)
(***************************************************************************)
TextPostIds == {"t1", "t2", "t3"}

\* CHECK(media_status IN (...)) of posts and of post_media
MediaStatusCheck ==
    {"pending", "downloaded", "permanently_removed",
     "temporarily_unavailable", "error", "duplicate"}

\* str(e) of the IntegrityError
MsgCheckFailed == <<"CHECK", "constraint", "failed:", "media_status">>

\* a row as save_posts inserts it
TPInit ==
    /\ tp_posts = [p \in TextPostIds |->
                     [post_type |-> "text", media_status |-> "pending",
                      error |-> NoError, downloaded |-> 0]]
    /\ tp_call = [p \in TextPostIds |->
                     [pc |-> "idle", result |-> "none", error |-> NoError,
                      fetches |-> 0]]

\* UPDATE posts SET media_status = ?, error = ? [, downloaded = ?] WHERE id = ?
\* the row after the statement, and whether the statement raised
ExecuteUpdate(row, new) ==
    IF new.media_status \in MediaStatusCheck
    THEN [row |-> new, raised |-> NoError]
    ELSE [row |-> row, raised |-> MsgCheckFailed]

\* line 317-323: process_post is called; post_type is 'text'
ProcessTextPost(p) ==
    /\ tp_call[p].pc \in {"idle", "returned"}
    /\ tp_posts[p].post_type = "text"
    /\ tp_call' = [tp_call EXCEPT ![p] =
                     [pc |-> "update", result |-> "none", error |-> NoError,
                      fetches |-> 0]]
    /\ UNCHANGED tp_posts
    /\ UNCHANGED tpOthers

\* line 324-331: the UPDATE to 'not_applicable', then return True; a raise
\* goes to the except of line 479
TextPostUpdate(p) ==
    /\ tp_call[p].pc = "update"
    /\ LET r == ExecuteUpdate(tp_posts[p],
                    [tp_posts[p] EXCEPT !.media_status = "not_applicable",
                                        !.error = NoError])
       IN /\ tp_posts' = [tp_posts EXCEPT ![p] = r.row]
          /\ tp_call' = [tp_call EXCEPT ![p] =
                IF r.raised = NoError
                THEN [@ EXCEPT !.pc = "returned", !.result = "True"]
                ELSE [@ EXCEPT !.pc = "except", !.error = r.raised]]
    /\ UNCHANGED tpOthers

\* line 479-488: mark_post_downloaded(success=False, error=str(e),
\* media_status='error'), then return False
TextPostExcept(p) ==
    /\ tp_call[p].pc = "except"
    /\ LET r == ExecuteUpdate(tp_posts[p],
                    [tp_posts[p] EXCEPT !.media_status = "error",
                                        !.error = tp_call[p].error,
                                        !.downloaded = 0])
       IN /\ tp_posts' = [tp_posts EXCEPT ![p] = r.row]
          /\ tp_call' = [tp_call EXCEPT ![p] =
                [@ EXCEPT !.pc = "returned", !.result = "False"]]
    /\ UNCHANGED tpOthers

TPNext ==
    \/ \E p \in TextPostIds : ProcessTextPost(p)
    \/ \E p \in TextPostIds : TextPostUpdate(p)
    \/ \E p \in TextPostIds : TextPostExcept(p)

TPStart == TPInit /\ RLIdle /\ DLIdle /\ QIdle /\ SchIdle /\ DBIdle /\ WIdle /\ TXIdle /\ CMIdle /\ RFIdle /\ SWIdle /\ CRIdle /\ PLIdle

TPSpec == TPStart /\ [][TPNext]_vars

\* C39: process_post on a text post makes no fetch, returns true and leaves
\* media_status = not_applicable with error NULL; no value outside the set
\* the store accepts is ever in posts.media_status.
C39_TextPost ==
    /\ \A p \in TextPostIds :
          tp_call[p].pc = "returned" =>
              /\ tp_call[p].fetches = 0
              /\ tp_call[p].result = "True"
              /\ tp_posts[p].media_status = "not_applicable"
              /\ tp_posts[p].error = NoError
    /\ \A p \in TextPostIds : tp_posts[p].media_status \in MediaStatusCheck

====
